---- MODULE Spec2Model ----
(***************************************************************************)
(* A model of uplt: CSV ingestion (src/uplt/core.py), the expression       *)
(* splitter (core.py), the aggregation parser (query_builder.py) and the   *)
(* heatmap chart engine (charts.py).                                       *)
(*                                                                         *)
(* Text is modelled as a sequence of one-character strings, so that        *)
(* scanning, trimming, splitting and matching are computed character by    *)
(* character as the Python code computes them.                             *)
(***************************************************************************)
EXTENDS Integers, Sequences, FiniteSets, Bags, TLC

VARIABLES
    \* split_expressions (core.py:8-51): the locals of the scan
    expr_string, i, current_expr, paren_depth, quote_char, expressions, split_pc,
    \* detect_delimiter (core.py:89-101): the argument and the returned value
    sample, delimiter,
    \* create_table_from_csv (core.py:191-266): the rows csv.reader yields, the
    \* header_mode argument, the local has_headers, the table of the connection
    \* and what the call returned or raised
    all_rows, header_mode, has_headers, table, csv_result,
    \* parse_aggregation (query_builder.py:6-26): the argument and the result
    field, agg_result,
    \* create_heatmap (charts.py:122-269): the rows of the table behind the
    \* cursor, the value_field argument, the queries executed so far, the
    \* locals x_scale, y_scale and results, and the returned value
    heat_rows, value_field, queries, x_scale, y_scale, results, heatmap,
    \* create_multi_comparison (charts/multi_comparison.py:26-287) and
    \* create_comparison (charts/comparison.py:31-263): the rows of the table
    \* behind the cursor, the function called, its value_field, display_mode
    \* and baseline arguments, the queries executed so far, the locals
    \* baseline_version and comparison_versions (version_a and version_b of
    \* create_comparison) and the returned value
    cmp_rows, cmp_function, cmp_value_field, display_mode, baseline, cmp_queries,
    baseline_version, comparison_versions, comparison,
    \* parse_chart_command (query_builder.py:29-86): the argument and what the
    \* call returned or raised
    args, chart_command,
    \* create_heatmap_without_aggregation (charts.py:270-449), called on its
    \* own: the data argument and the returned value
    plot_data, plot,
    \* create_numeric_scale (charts/utils.py:19-58) and find_bin_index
    \* (charts/utils.py:61-69): the arguments min_val, max_val and
    \* target_steps, the scale returned, the value looked up in it and the
    \* index returned
    scale_min, scale_max, scale_steps, numeric_scale, bin_value, bin_index

splitVars == <<expr_string, i, current_expr, paren_depth, quote_char, expressions, split_pc>>
delimVars == <<sample, delimiter>>

csvVars == <<all_rows, header_mode, has_headers, table, csv_result>>

aggVars == <<field, agg_result>>

heatVars == <<heat_rows, value_field, queries, x_scale, y_scale, results, heatmap>>

cmpVars == <<cmp_rows, cmp_function, cmp_value_field, display_mode, baseline, cmp_queries,
             baseline_version, comparison_versions, comparison>>

commandVars == <<args, chart_command>>

plotVars == <<plot_data, plot>>

scaleVars == <<scale_min, scale_max, scale_steps, numeric_scale, bin_value, bin_index>>

vars == <<splitVars, delimVars, csvVars, aggVars, heatVars, cmpVars, commandVars, scaleVars, plotVars>>

\* Python's None, where a string or nothing is expected
None == "None"

\* Python's None in a row of cells (a cell is a sequence of characters)
NoValue == <<"None">>

\* The connection has no table
NoTable == [exists |-> FALSE, columns |-> <<>>, rows |-> <<>>]

\* create_table_from_csv has not returned
NotCalled == [status |-> "none"]

(***************************************************************************)
(* The state of each component before it is called.                        *)
(***************************************************************************)
\* No call of split_expressions is under way
SplitIdle ==
    /\ expr_string = <<>>
    /\ i = 0
    /\ current_expr = <<>>
    /\ paren_depth = 0
    /\ quote_char = None
    /\ expressions = <<>>
    /\ split_pc = "idle"

\* No call of detect_delimiter has been made
DelimIdle ==
    /\ sample = <<>>
    /\ delimiter = None

\* A fresh connection: no table, no call made
CsvIdle ==
    /\ all_rows = <<>>
    /\ header_mode = None
    /\ has_headers = <<>>
    /\ table = NoTable
    /\ csv_result = NotCalled

\* parse_aggregation has not returned
NotParsed == [func |-> <<"?">>, field_name |-> <<"?">>]

\* No call of parse_aggregation has been made
AggIdle ==
    /\ field = <<>>
    /\ agg_result = NotParsed

\* create_heatmap has not returned
NoHeatmap == [kind |-> "not called"]

\* No call of create_heatmap has been made
HeatIdle ==
    /\ heat_rows = EmptyBag
    /\ value_field = <<>>
    /\ queries = <<>>
    /\ x_scale = <<>>
    /\ y_scale = <<>>
    /\ results = {}
    /\ heatmap = NoHeatmap

\* Neither comparison function has returned
NotCompared == [kind |-> "not called"]

\* No call of create_multi_comparison or create_comparison has been made
CmpIdle ==
    /\ cmp_rows = EmptyBag
    /\ cmp_function = "none"
    /\ cmp_value_field = <<>>
    /\ display_mode = <<>>
    /\ baseline = <<>>
    /\ cmp_queries = <<>>
    /\ baseline_version = <<>>
    /\ comparison_versions = <<>>
    /\ comparison = NotCompared

\* parse_chart_command has not returned
NotParsedCommand == [kind |-> "not called"]

\* No call of parse_chart_command has been made
CommandIdle ==
    /\ args = <<>>
    /\ chart_command = NotParsedCommand

\* create_heatmap_without_aggregation has not returned
NotPlotted == [kind |-> "not called"]

\* No call of create_heatmap_without_aggregation on its own has been made
PlotIdle ==
    /\ plot_data = {}
    /\ plot = NotPlotted

\* No call of create_numeric_scale has been made
ScaleIdle ==
    /\ scale_min = <<>>
    /\ scale_max = <<>>
    /\ scale_steps = 0
    /\ numeric_scale = <<>>
    /\ bin_value = <<>>
    /\ bin_index = <<>>

(***************************************************************************)
(* Bounds of the model.                                                    *)
(***************************************************************************)
MaxExprLen == 5
MaxSampleLen == 6
MaxCsvRows == 2
MaxCsvCols == 2
MaxFieldTokens == 5
MaxHeatRows == 3
MaxCmpRows == 3
MaxArgs == 4
MaxScaleEnd == 3
MaxCellValue == 5

(***************************************************************************)
(* Text helpers.                                                           *)
(***************************************************************************)
\* All sequences over S of length at most n
SeqsUpTo(S, n) == UNION {[1..k -> S] : k \in 0..n}

Whitespace == {" ", "\t", "\n"}

\* str.lstrip()
RECURSIVE LStrip(_)
LStrip(s) == IF s # <<>> /\ Head(s) \in Whitespace THEN LStrip(Tail(s)) ELSE s

\* str.rstrip()
RECURSIVE RStrip(_)
RStrip(s) ==
    IF s # <<>> /\ s[Len(s)] \in Whitespace
    THEN RStrip(SubSeq(s, 1, Len(s) - 1))
    ELSE s

\* str.strip()
Strip(s) == RStrip(LStrip(s))

(***************************************************************************)
(* detect_delimiter (core.py:89-101)                                       *)
(***************************************************************************)
\* core.py:91: the candidates, in the order the dict is filled
delimiters == <<",", ";", "\t", " ", "|">>

\* str.split(sep) for a one-character separator
RECURSIVE SplitOn(_, _)
SplitOn(s, sep) ==
    IF \E p \in 1..Len(s) : s[p] = sep
    THEN LET p == CHOOSE q \in 1..Len(s) :
                      s[q] = sep /\ \A r \in 1..(q - 1) : s[r] # sep
         IN <<SubSeq(s, 1, p - 1)>> \o SplitOn(SubSeq(s, p + 1, Len(s)), sep)
    ELSE <<s>>

\* core.py:95: the number of lines that are counted
SampleLines == 5

\* core.py:95: lines = sample.split('\n')[:5]
FirstLinesAll(text) == SplitOn(text, "\n")

FirstLines(text) ==
    LET lines == SplitOn(text, "\n")
    IN SubSeq(lines, 1, IF Len(lines) < SampleLines THEN Len(lines) ELSE SampleLines)

\* str.count(c) for a one-character c
RECURSIVE CountChar(_, _)
CountChar(line, c) ==
    IF line = <<>> THEN 0
    ELSE (IF Head(line) = c THEN 1 ELSE 0) + CountChar(Tail(line), c)

\* core.py:97: sum(line.count(delimiter) for line in lines)
RECURSIVE SumCounts(_, _)
SumCounts(lines, c) ==
    IF lines = <<>> THEN 0
    ELSE CountChar(Head(lines), c) + SumCounts(Tail(lines), c)

\* core.py:101: max(delimiter_counts, key=delimiter_counts.get) walks the keys
\* in insertion order and keeps the first one that has the greatest count
RECURSIVE MaxKey(_, _, _)
MaxKey(counts, k, best) ==
    IF k > Len(delimiters) THEN delimiters[best]
    ELSE MaxKey(counts, k + 1, IF counts[k] > counts[best] THEN k ELSE best)

detect_delimiter(text) ==
    LET lines == FirstLines(text)
        delimiter_counts == [k \in 1..Len(delimiters) |-> SumCounts(lines, delimiters[k])]
    IN MaxKey(delimiter_counts, 2, 1)

SampleAlphabet == {",", ";", "\t", " ", "|", "\n", "a"}

DelimInit ==
    /\ sample \in SeqsUpTo(SampleAlphabet, MaxSampleLen)
    /\ delimiter = None

DetectDelimiter ==
    /\ delimiter = None
    /\ delimiter' = detect_delimiter(sample)
    /\ UNCHANGED sample
    /\ UNCHANGED <<splitVars, csvVars, aggVars, heatVars, cmpVars, commandVars, scaleVars, plotVars>>

DelimNext == DetectDelimiter

(***************************************************************************)
(* split_expressions (core.py:8-51)                                        *)
(***************************************************************************)
QuoteChars == {"\"", "'"}

\* core.py:26-29: the quote state after reading char
NextQuote(q, char) ==
    IF char \in QuoteChars /\ q = None THEN char
    ELSE IF char = q THEN None
    ELSE q

\* core.py:32-36: the parenthesis depth after reading char, q being the quote
\* state already updated for char
NextDepthQuoteBlind(d, q, char) ==
    IF char = "(" THEN d + 1
    ELSE IF char = ")" THEN d - 1
    ELSE d

NextDepth(d, q, char) ==
    IF q = None
    THEN IF char = "(" THEN d + 1
         ELSE IF char = ")" THEN d - 1
         ELSE d
    ELSE d

\* core.py:32,37: char is a top-level comma
IsTopLevelComma(d, q, char) ==
    /\ q = None
    /\ char # "("
    /\ char # ")"
    /\ char = ","
    /\ d = 0

\* core.py:48-49: the last expression is added when it is not blank
LastExpressionAlways(exprs, cur) == Append(exprs, Strip(cur))

LastExpression(exprs, cur) ==
    IF Strip(cur) # <<>> THEN Append(exprs, Strip(cur)) ELSE exprs

\* core.py:16-51: split_expressions(expr_string) as a function of its
\* argument: the scan from position k on, with the locals it has there
RECURSIVE ScanFrom(_, _, _, _, _, _)
ScanFrom(s, k, exprs, cur, d, q) ==
    IF k > Len(s) THEN LastExpression(exprs, cur)
    ELSE LET char == s[k]
             nq == NextQuote(q, char)
             nd == NextDepth(d, nq, char)
         IN IF IsTopLevelComma(d, nq, char)
            THEN ScanFrom(s, k + 1, Append(exprs, Strip(cur)), <<>>, nd, nq)
            ELSE ScanFrom(s, k + 1, exprs, Append(cur, char), nd, nq)

split_expressions(s) == ScanFrom(s, 1, <<>>, <<>>, 0, None)

SplitAlphabet == {"a", ",", "(", ")", "'", "\"", " "}

SplitInit ==
    /\ expr_string \in SeqsUpTo(SplitAlphabet, MaxExprLen)
    /\ i = 0
    /\ current_expr = <<>>
    /\ paren_depth = 0
    /\ quote_char = None
    /\ expressions = <<>>
    /\ split_pc = "scan"

\* One iteration of the while loop, core.py:22-45
ScanChar ==
    /\ split_pc = "scan"
    /\ i < Len(expr_string)
    /\ LET char == expr_string[i + 1]
           q == NextQuote(quote_char, char)
           d == NextDepth(paren_depth, q, char)
       IN /\ quote_char' = q
          /\ paren_depth' = d
          /\ IF IsTopLevelComma(paren_depth, q, char)
             THEN /\ expressions' = Append(expressions, Strip(current_expr))
                  /\ current_expr' = <<>>
             ELSE /\ expressions' = expressions
                  /\ current_expr' = Append(current_expr, char)
          /\ i' = i + 1
    /\ UNCHANGED <<expr_string, split_pc>>
    /\ UNCHANGED <<delimVars, csvVars, aggVars, heatVars, cmpVars, commandVars, scaleVars, plotVars>>

\* The loop exit and core.py:47-51
SplitReturn ==
    /\ split_pc = "scan"
    /\ i >= Len(expr_string)
    /\ expressions' = LastExpression(expressions, current_expr)
    /\ split_pc' = "done"
    /\ UNCHANGED <<expr_string, i, current_expr, paren_depth, quote_char>>
    /\ UNCHANGED <<delimVars, csvVars, aggVars, heatVars, cmpVars, commandVars, scaleVars, plotVars>>

SplitNext == ScanChar \/ SplitReturn

(***************************************************************************)
(* CSV ingestion (core.py:104-266)                                         *)
(***************************************************************************)
Digits == {"0", "1", "2", "3", "4", "5", "6", "7", "8", "9"}
LowerLetters ==
    <<"a", "b", "c", "d", "e", "f", "g", "h", "i", "j", "k", "l", "m",
      "n", "o", "p", "q", "r", "s", "t", "u", "v", "w", "x", "y", "z">>

UpperLetters ==
    <<"A", "B", "C", "D", "E", "F", "G", "H", "I", "J", "K", "L", "M",
      "N", "O", "P", "Q", "R", "S", "T", "U", "V", "W", "X", "Y", "Z">>

Letters == {LowerLetters[k] : k \in 1..26} \cup {UpperLetters[k] : k \in 1..26}
\* \w of Python's re
WordChars == Digits \cup Letters \cup {"_"}

\* int(text) succeeds: optional surrounding whitespace around decimal digits
\* (signs and digit separators are outside the alphabet of the model)
IsIntText(text) ==
    LET t == Strip(text)
    IN t # <<>> /\ \A k \in 1..Len(t) : t[k] \in Digits

\* float(text) succeeds: digits with at most one decimal point and at least
\* one digit (signs, exponents, inf and nan are outside the alphabet)
IsFloatText(text) ==
    LET t == Strip(text)
    IN /\ t # <<>>
       /\ \A k \in 1..Len(t) : t[k] \in Digits \cup {"."}
       /\ Cardinality({k \in 1..Len(t) : t[k] = "."}) <= 1
       /\ \E k \in 1..Len(t) : t[k] \in Digits

\* core.py:104-114
sanitize_column_name(name) ==
    LET t == Strip(name)
        sanitized == [k \in 1..Len(t) |-> IF t[k] \in WordChars THEN t[k] ELSE "_"]
    IN IF sanitized # <<>> /\ sanitized[1] \in Digits
       THEN <<"c", "o", "l", "_">> \o sanitized
       ELSE IF sanitized = <<>>
       THEN <<"u", "n", "n", "a", "m", "e", "d", "_", "c", "o", "l", "u", "m", "n">>
       ELSE sanitized

\* core.py:120: the values that take part in type inference
NonEmptyValues(values) ==
    {k \in 1..Len(values) : values[k] # NoValue /\ Strip(values[k]) # <<>>}

\* core.py:117-141
infer_column_type(values) ==
    LET non_empty_values == NonEmptyValues(values)
    IN IF non_empty_values = {} THEN "TEXT"
       ELSE IF \A k \in non_empty_values : IsIntText(values[k]) THEN "INTEGER"
       ELSE IF \A k \in non_empty_values : IsFloatText(values[k]) THEN "REAL"
       ELSE "TEXT"

\* core.py:161-173
count_numeric_fields(row) ==
    Cardinality({k \in 1..Len(row) : Strip(row[k]) # <<>> /\ IsFloatText(Strip(row[k]))})

\* core.py:185: first_numeric_count >= len(first_row) * 0.7
MostlyNumericHalf(count, row) == 10 * count >= 5 * Len(row)

MostlyNumeric(count, row) == 10 * count >= 7 * Len(row)

\* core.py:144-188
auto_detect_headers(rows) ==
    IF Len(rows) < 2 THEN TRUE
    ELSE LET first_numeric_count == count_numeric_fields(rows[1])
             second_numeric_count == count_numeric_fields(rows[2])
         IN IF first_numeric_count = 0 /\ second_numeric_count > 0 THEN TRUE
            ELSE IF MostlyNumeric(first_numeric_count, rows[1]) THEN FALSE
            ELSE first_numeric_count < second_numeric_count

\* core.py:218-226: <<has_headers>>, or <<>> when header_mode is invalid
HeaderChoice(mode, rows) ==
    IF mode = None \/ mode = "auto" THEN <<auto_detect_headers(rows)>>
    ELSE IF mode = "yes" THEN <<TRUE>>
    ELSE IF mode = "no" THEN <<FALSE>>
    ELSE <<>>

\* core.py:231: f1..fn
GeneratedName(k) == <<"f", CHOOSE c \in Digits : c = ToString(k)>>

\* core.py:228-236: the column names
Headers(hh, rows) ==
    IF ~hh
    THEN [k \in 1..Len(rows[1]) |-> GeneratedName(k)]
    ELSE [k \in 1..Len(rows[1]) |-> sanitize_column_name(rows[1][k])]

\* core.py:232,236: the data rows
DataRowsKeepHeader(hh, rows) == rows

DataRows(hh, rows) == IF ~hh THEN rows ELSE Tail(rows)

\* core.py:244: the values of column k, None where a row is too short
ColumnValues(rows, k) ==
    [r \in 1..Len(rows) |-> IF k <= Len(rows[r]) THEN rows[r][k] ELSE NoValue]

\* core.py:258-260: pad with None, then cut to the header width
PaddedRowNoPadding(row, width) ==
    [k \in 1..(IF Len(row) < width THEN Len(row) ELSE width) |-> row[k]]

PaddedRow(row, width) ==
    [k \in 1..width |-> IF k <= Len(row) THEN row[k] ELSE NoValue]

\* core.py:261: what the engine stores for a bound parameter in a column of
\* the given declared type: None is NULL, text that is a well-formed number
\* is converted by the column affinity, any other text is kept as text
StoredEmptyAsNull(value, type) ==
    IF value = NoValue \/ Strip(value) = <<>> THEN [kind |-> "null", text |-> <<>>]
    ELSE [kind |-> "text", text |-> value]

Stored(value, type) ==
    IF value = NoValue THEN [kind |-> "null", text |-> <<>>]
    ELSE IF type \in {"INTEGER", "REAL"} /\ IsIntText(value)
    THEN [kind |-> "integer", text |-> Strip(value)]
    ELSE IF type \in {"INTEGER", "REAL"} /\ IsFloatText(value)
    THEN [kind |-> "real", text |-> Strip(value)]
    ELSE [kind |-> "text", text |-> value]

\* core.py:250: CREATE TABLE is rejected by the engine when there is no
\* column or when two columns have the same name
CreateTableFails(headers) ==
    \/ Len(headers) = 0
    \/ \E j, k \in 1..Len(headers) : j # k /\ headers[j] = headers[k]

\* core.py:266: f"Error parsing CSV: {e}", the cause given as its parts
Raised(cause) ==
    [status |-> "raised", prefix |-> "Error parsing CSV: ", cause |-> cause]

\* core.py:263
Returned(headers) == [status |-> "returned", headers |-> headers]

\* core.py:249-261: the table after CREATE TABLE and the INSERTs
LoadedTable(headers, rows) ==
    LET types == [k \in 1..Len(headers) |-> infer_column_type(ColumnValues(rows, k))]
    IN [exists |-> TRUE,
        columns |-> [k \in 1..Len(headers) |-> <<headers[k], types[k]>>],
        rows |-> [r \in 1..Len(rows) |->
                    LET padded_row == PaddedRow(rows[r], Len(headers))
                    IN [k \in 1..Len(padded_row) |-> Stored(padded_row[k], types[k])]]]

CsvCells == {<<>>, <<"1", ".", "5">>, <<"x">>}
CsvRowSet == SeqsUpTo(CsvCells, MaxCsvCols)
HeaderModes == {None, "auto", "yes", "no", "maybe"}

\* The arguments of a call on a fresh connection: the rows csv.reader yields
\* for csv_data and the header_mode
CsvInit ==
    /\ \E n \in 0..MaxCsvRows : all_rows \in [1..n -> CsvRowSet]
    /\ header_mode \in HeaderModes
    /\ has_headers = <<>>
    /\ table = NoTable
    /\ csv_result = NotCalled

\* The call of create_table_from_csv, core.py:191-266
CreateTableFromCsv ==
    /\ csv_result = NotCalled
    /\ UNCHANGED <<all_rows, header_mode>>
    /\ IF all_rows = <<>>
       THEN /\ csv_result' = Raised(<<"No data found in CSV">>)
            /\ UNCHANGED <<has_headers, table>>
       ELSE LET hh == HeaderChoice(header_mode, all_rows)
            IN IF hh = <<>>
               THEN /\ csv_result' = Raised(<<"Invalid header_mode: ", header_mode>>)
                    /\ UNCHANGED <<has_headers, table>>
               ELSE /\ has_headers' = hh
                    /\ LET headers == Headers(hh[1], all_rows)
                           data == DataRows(hh[1], all_rows)
                       IN IF data = <<>>
                          THEN /\ csv_result' = Raised(<<"No data rows found in CSV">>)
                               /\ UNCHANGED table
                          ELSE IF CreateTableFails(headers)
                          THEN /\ csv_result' = Raised(<<"engine error">>)
                               /\ UNCHANGED table
                          ELSE /\ table' = LoadedTable(headers, data)
                               /\ csv_result' = Returned(headers)
    /\ UNCHANGED <<splitVars, delimVars, aggVars, heatVars, cmpVars, commandVars, scaleVars, plotVars>>

CsvNext == CreateTableFromCsv

(***************************************************************************)
(* parse_aggregation (query_builder.py:6-26)                               *)
(***************************************************************************)
\* str.lower() of one character
LowerChar(c) ==
    IF \E k \in 1..26 : UpperLetters[k] = c
    THEN LowerLetters[CHOOSE k \in 1..26 : UpperLetters[k] = c]
    ELSE c

\* str.lower()
Lower(text) == [k \in 1..Len(text) |-> LowerChar(text[k])]

\* The length of the longest prefix of text made of word characters: what
\* the greedy \w+ takes first
RECURSIVE WordPrefixLen(_)
WordPrefixLen(text) ==
    IF text # <<>> /\ Head(text) \in WordChars THEN 1 + WordPrefixLen(Tail(text)) ELSE 0

\* query_builder.py:17: re.match(r'^(\w+)\((.+)\)$', text); <<func, args>> on
\* a match, <<>> otherwise. \w+ must end right before a '(' and so can only
\* be the whole word prefix; .+ is greedy and gives back the final ')'.
MatchCall(text) ==
    LET w == WordPrefixLen(text)
    IN IF /\ w >= 1
          /\ Len(text) >= w + 3
          /\ text[w + 1] = "("
          /\ text[Len(text)] = ")"
          /\ \A k \in (w + 2)..(Len(text) - 1) : text[k] # "\n"
       THEN <<SubSeq(text, 1, w), SubSeq(text, w + 2, Len(text) - 1)>>
       ELSE <<>>

\* query_builder.py:21
valid_funcs ==
    {<<"a", "v", "g">>, <<"s", "u", "m">>, <<"m", "i", "n">>, <<"m", "a", "x">>,
     <<"c", "o", "u", "n", "t">>}

\* query_builder.py:23: the function name that is returned
ReturnedFuncAsWritten(func) == func

ReturnedFunc(func) == Lower(func)

\* query_builder.py:6-26
parse_aggregation(text) ==
    LET match == MatchCall(Strip(text))
    IN IF match # <<>> /\ Lower(match[1]) \in valid_funcs
       THEN [func |-> ReturnedFunc(match[1]), field_name |-> Strip(match[2])]
       ELSE [func |-> NoValue, field_name |-> Strip(text)]

\* The pieces the arguments of the model are made of
FieldTokens ==
    {<<"a", "v", "g">>, <<"S", "u", "m">>, <<"(">>, <<")">>, <<"x">>, <<" ">>,
     <<"+">>, <<"(", "x", ")">>}

RECURSIVE Flatten(_)
Flatten(parts) == IF parts = <<>> THEN <<>> ELSE Head(parts) \o Flatten(Tail(parts))

AggInit ==
    /\ \E n \in 0..MaxFieldTokens :
          \E parts \in [1..n -> FieldTokens] : field = Flatten(parts)
    /\ agg_result = NotParsed

ParseAggregation ==
    /\ agg_result = NotParsed
    /\ agg_result' = parse_aggregation(field)
    /\ UNCHANGED field
    /\ UNCHANGED <<splitVars, delimVars, csvVars, heatVars, cmpVars, commandVars, scaleVars, plotVars>>

AggNext == ParseAggregation

(***************************************************************************)
(* create_heatmap (charts.py:21-449)                                       *)
(*                                                                         *)
(* A column value is <<>> (SQL NULL) or <<n>> (the integer n). A float of  *)
(* an axis is a pair <<m, e>>: m is its exact value in thousandths and e   *)
(* is the sign of the IEEE-754 rounding error it carries (-1: just below   *)
(* m, 0: exactly m, 1: just above m). The error is far smaller than the    *)
(* distance between two different values of the model, so the pairs are    *)
(* ordered lexicographically.                                              *)
(***************************************************************************)
\* SQL NULL, and Python's None for a value fetched from the table
Null == <<>>

\* charts.py:105-106: float(min_val) of an integer fetched from the table
Float(n) == <<n * 1000, 0>>

\* < and <= on floats
Less(a, b) == a[1] < b[1] \/ (a[1] = b[1] /\ a[2] < b[2])

AtMost(a, b) == a = b \/ Less(a, b)

\* The powers of ten 10 ** k, for k from -2 to 2, in thousandths
Magnitudes == {10, 100, 1000, 10000, 100000}

\* charts.py:32-33: 10 ** floor(log10(range_val / target_steps))
magnitude(range_val, target_steps) ==
    CHOOSE m \in Magnitudes :
        m * target_steps <= range_val /\ range_val < 10 * m * target_steps

\* charts.py:36-46: ten times nice_step (2.5 is not a whole number), chosen
\* by normalized_step = range_val / (target_steps * magnitude)
nice_step(range_val, target_steps) ==
    LET unit == target_steps * magnitude(range_val, target_steps)
    IN IF range_val <= unit THEN 10
       ELSE IF range_val <= 2 * unit THEN 20
       ELSE IF 2 * range_val <= 5 * unit THEN 25
       ELSE IF range_val <= 5 * unit THEN 50
       ELSE 100

\* charts.py:29-48: step = nice_step * magnitude, in thousandths
ScaleStep(min_val, max_val, target_steps) ==
    LET range_val == max_val[1] - min_val[1]
    IN (nice_step(range_val, target_steps) * magnitude(range_val, target_steps)) \div 10

\* charts.py:54-58: the rounding error that `current += step` can build up.
\* A step that is a multiple of 1/8 and all its small multiples are binary
\* fractions, which the additions give exactly; any other step (0.05, 0.1,
\* 0.2) is not a binary fraction and the sums may end below or above the
\* decimal value (create_numeric_scale(2.0, 3.0, 20) ends at
\* 2.9999999999999964, create_numeric_scale(0.0, 1.0, 20) at
\* 1.0000000000000002).
RoundingErrors(min_val, max_val, target_steps) ==
    IF min_val = Null \/ max_val = Null THEN {0}
    ELSE IF min_val = max_val THEN {0}
    ELSE IF ScaleStep(Float(min_val[1]), Float(max_val[1]), target_steps) % 125 = 0 THEN {0}
    ELSE {-1, 0, 1}

\* charts.py:21-60; err is the rounding error of the accumulated edges.
\* The number of edges is that of the exact sum: the error is far below the
\* step * 0.01 the loop allows.
create_numeric_scale(min_val, max_val, target_steps, err) ==
    IF min_val = max_val
    THEN IF min_val[1] = 0
         THEN << <<0, 0>> >>
         ELSE << <<(min_val[1] * 9) \div 10, 0>>, min_val, <<(min_val[1] * 11) \div 10, 0>> >>
    ELSE LET step == ScaleStep(min_val, max_val, target_steps)
             start == (min_val[1] \div step) * step
             end == (-((-max_val[1]) \div step)) * step
             steps == (end - start) \div step
         IN [k \in 1..(steps + 1) |->
                <<start + (k - 1) * step, IF k = 1 THEN 0 ELSE err>>]

\* The least element of a non-empty set of integers
Least(S) == CHOOSE k \in S : \A j \in S : k <= j

FindBinIndexOpenTop(value, scale) ==
    LET hits == {k \in 1..(Len(scale) - 1) :
                    AtMost(scale[k], value) /\ Less(value, scale[k + 1])}
    IN IF hits # {} THEN Least(hits) - 1 ELSE -1

\* charts.py:63-71
find_bin_index(value, scale) ==
    LET hits == {k \in 1..(Len(scale) - 1) :
                    AtMost(scale[k], value) /\ Less(value, scale[k + 1])}
    IN IF hits # {} THEN Least(hits) - 1
       ELSE IF value = scale[Len(scale)] THEN Len(scale) - 2
       ELSE -1

\* charts.py:107-115: the value of the CASE expression for a column value:
\* the first WHEN that holds, NULL when none does (and for NULL, which
\* compares with nothing)
CaseBin(v, scale) ==
    IF v = Null THEN Null
    ELSE LET hits == {k \in 1..(Len(scale) - 1) :
                         AtMost(scale[k], Float(v[1])) /\ Less(Float(v[1]), scale[k + 1])}
         IN IF hits # {} THEN <<Least(hits) - 1>>
            ELSE IF Float(v[1]) = scale[Len(scale)] THEN <<Len(scale) - 2>>
            ELSE Null

\* charts.py:74-119: whether the axis is numeric and its scale (<<>> stands
\* for None). The SQL expression is AxisExpr below.
build_axis_query(min_val, max_val, target_bins, err) ==
    IF min_val # Null /\ max_val # Null
    THEN [is_numeric |-> TRUE,
          scale |-> create_numeric_scale(Float(min_val[1]), Float(max_val[1]), target_bins, err)]
    ELSE [is_numeric |-> FALSE, scale |-> <<>>]

\* charts.py:115-119: the value of sql_expr for a column value: the CASE
\* expression of a numeric axis, the field itself of a categorical one
AxisExpr(axis, v) == IF axis.is_numeric THEN CaseBin(v, axis.scale) ELSE v

\* The values of the columns x, y and v of the model's tables
XValues == {Null, <<2>>, <<3>>}

YValues == {<<0>>, <<10>>}

VValues == {Null, <<1>>, <<2>>}

\* A row of the table: <<x, y, v>>
HeatRowSet == XValues \X YValues \X VValues

\* The value_field arguments of the model: None, the five aggregates of the
\* column v, the bare column, and a column the table does not have
ValueFields ==
    {<<>>,
     <<"s", "u", "m", "(", "v", ")">>, <<"a", "v", "g", "(", "v", ")">>,
     <<"m", "i", "n", "(", "v", ")">>, <<"M", "a", "x", "(", "v", ")">>,
     <<"c", "o", "u", "n", "t", "(", "v", ")">>,
     <<"v">>,
     <<"w">>}

\* The greatest element of a non-empty set of integers
Greatest(S) == CHOOSE k \in S : \A j \in S : j <= k

\* The values of column c that are not NULL
AxisValues(rows, c) == {r[c][1] : r \in {q \in BagToSet(rows) : q[c] # Null}}

\* charts.py:141-146: MIN(field) and MAX(field) of the range query: NULL for
\* a column without a value
ColumnMin(rows, c) ==
    IF AxisValues(rows, c) = {} THEN Null ELSE <<Least(AxisValues(rows, c))>>

ColumnMax(rows, c) ==
    IF AxisValues(rows, c) = {} THEN Null ELSE <<Greatest(AxisValues(rows, c))>>

\* A value of the value column of a result is a whole number of 1/ValueDen,
\* so that AVG over up to MaxHeatRows rows is exact
RECURSIVE Factorial(_)
Factorial(n) == IF n <= 1 THEN 1 ELSE n * Factorial(n - 1)

ValueDen == Factorial(MaxHeatRows)

\* The number of rows of the bag among the rows S, and the sum of their v
RECURSIVE RowsIn(_, _)
RowsIn(group, S) ==
    IF S = {} THEN 0
    ELSE LET r == CHOOSE q \in S : TRUE
         IN CopiesIn(r, group) + RowsIn(group, S \ {r})

RECURSIVE SumIn(_, _)
SumIn(group, S) ==
    IF S = {} THEN 0
    ELSE LET r == CHOOSE q \in S : TRUE
         IN CopiesIn(r, group) * r[3][1] + SumIn(group, S \ {r})

\* str.upper() of a function name
UpperChar(c) ==
    IF \E k \in 1..26 : LowerLetters[k] = c
    THEN UpperLetters[CHOOSE k \in 1..26 : LowerLetters[k] = c]
    ELSE c

Upper(text) == [k \in 1..Len(text) |-> UpperChar(text[k])]

\* charts.py:163-172: value_expr, as <<function, argument>>; a bare
\* expression has no function
ValueExpr(vf) ==
    IF vf # <<>>
    THEN IF parse_aggregation(vf).func # NoValue
         THEN <<Upper(parse_aggregation(vf).func), parse_aggregation(vf).field_name>>
         ELSE <<<<>>, vf>>
    ELSE <<<<"C", "O", "U", "N", "T">>, <<"*">>>>

\* core.py:269-275: execute_query raises ValueError when sqlite rejects the
\* query, as it does when value_expr names a column the table does not have
SqlError(value_expr) == value_expr[2] \notin {<<"v">>, <<"*">>}

\* What sqlite gives for value_expr over the rows of a group. SUM, AVG, MIN
\* and MAX skip NULL and are NULL over no value; COUNT(v) counts the values
\* and COUNT(*) the rows. A bare column in an aggregate query takes its
\* value from an arbitrary row of the group, so every row's value is a
\* possible outcome.
Evaluate(value_expr, group) ==
    LET valued == {r \in BagToSet(group) : r[3] # Null}
        n == RowsIn(group, valued)
        func == value_expr[1]
    IN IF func = <<>>
       THEN {IF r[3] = Null THEN Null ELSE <<ValueDen * r[3][1]>> : r \in BagToSet(group)}
       ELSE IF func = <<"C", "O", "U", "N", "T">>
       THEN IF value_expr[2] = <<"*">>
            THEN {<<ValueDen * BagCardinality(group)>>}
            ELSE {<<ValueDen * n>>}
       ELSE IF n = 0 THEN {Null}
       ELSE IF func = <<"S", "U", "M">> THEN {<<ValueDen * SumIn(group, valued)>>}
       ELSE IF func = <<"A", "V", "G">> THEN {<<(ValueDen * SumIn(group, valued)) \div n>>}
       ELSE IF func = <<"M", "I", "N">> THEN {<<ValueDen * Least({r[3][1] : r \in valued})>>}
       ELSE {<<ValueDen * Greatest({r[3][1] : r \in valued})>>}

\* charts.py:203: WHERE (x IS NOT NULL) AND (y IS NOT NULL)
Selected(rows) == {r \in BagToSet(rows) : r[1] # Null /\ r[2] # Null}

\* charts.py:177-196: the two axis expressions of a row, which GROUP BY
\* groups on
GroupKey(r, x_axis, y_axis) == <<AxisExpr(x_axis, r[1]), AxisExpr(y_axis, r[2])>>

\* charts.py:204-208: the groups that HAVING keeps: a numeric axis needs a
\* bin that is not NULL
GroupKeys(rows, x_axis, y_axis) ==
    {key \in {GroupKey(r, x_axis, y_axis) : r \in Selected(rows)} :
        /\ x_axis.is_numeric => key[1] # Null
        /\ y_axis.is_numeric => key[2] # Null}

\* The rows of a group, each as many times as the table holds it
GroupRows(rows, key, x_axis, y_axis) ==
    [r \in {q \in Selected(rows) : GroupKey(q, x_axis, y_axis) = key} |-> CopiesIn(r, rows)]

\* charts.py:198-208: the groups of the aggregated query, each with its key
Groups(rows, x_axis, y_axis) ==
    {<<key, GroupRows(rows, key, x_axis, y_axis)>> : key \in GroupKeys(rows, x_axis, y_axis)}

\* charts.py:198-214: the results the aggregated query can give: one row
\* <<x, y, value>> per group
QueryResults(groups, value_expr) ==
    LET outcomes == [g \in groups |-> Evaluate(value_expr, g[2])]
    IN {{<<g[1][1], g[1][2], f[g]>> : g \in groups} :
           f \in {h \in [groups -> UNION {outcomes[g] : g \in groups}] :
                     \A g \in groups : h[g] \in outcomes[g]}}

\* A Python list index: a negative one counts from the end
PyIndex(list, k) == IF k < 0 THEN list[Len(list) + k + 1] ELSE list[k + 1]

\* charts.py:220-241: transformed_data: a bin of a numeric axis becomes the
\* edge of the scale it starts at, a row with a bin of None is left out
Transformed(rows, x_axis, y_axis) ==
    {<<IF x_axis.is_numeric THEN PyIndex(x_axis.scale, r[1][1]) ELSE r[1],
       IF y_axis.is_numeric THEN PyIndex(y_axis.scale, r[2][1]) ELSE r[2],
       r[3]>> :
        r \in {q \in rows : /\ x_axis.is_numeric => q[1] # Null
                            /\ y_axis.is_numeric => q[2] # Null}}

\* What create_heatmap returns: None, a message, or the rendered chart
NoneReturned == [kind |-> "None"]

\* What a call that lets an exception out leaves its caller with
Propagated == [kind |-> "raised"]

Uncaught == Propagated

\* charts.py:266-269, charts/multi_comparison.py:284-287 and
\* charts/comparison.py:260-263: except Exception: return None
Caught == NoneReturned

MessageAsNone(text) == NoneReturned

Message(text) == [kind |-> "message", text |-> text]

\* charts.py:279: chars = " ░▒▓█"
LenChars == 5

CharIndexRounded(value, min_val, max_val) ==
    LET idx == ((value - min_val) * (LenChars - 1) * 2 + (max_val - min_val))
               \div (2 * (max_val - min_val))
    IN IF idx < 0 THEN 0 ELSE IF idx > LenChars - 1 THEN LenChars - 1 ELSE idx

\* charts.py:409-411: the index of the character of a value
CharIndex(value, min_val, max_val) ==
    LET idx == ((value - min_val) * (LenChars - 1)) \div (max_val - min_val)
    IN IF idx < 0 THEN 0 ELSE IF idx > LenChars - 1 THEN LenChars - 1 ELSE idx

\* charts.py:436-447: the intervals of the legend, one per character, as
\* the numbers that f"{lower:.6g}" and f"{upper:.6g}" write, counted in
\* fifths (1 / len(chars)) of the unit of the values; the last interval is
\* written closed
LegendParts(min_val, max_val) ==
    [k \in 1..LenChars |->
        [lower |-> LenChars * min_val + (k - 1) * (max_val - min_val),
         upper |-> LenChars * min_val + k * (max_val - min_val),
         closed |-> k = LenChars]]

\* charts.py:314-354: the grid: the cell of every data point that has a
\* value and a bin on both scales. Both scales are numeric: a table of
\* integers and NULLs has a categorical axis only when no row is selected,
\* and then create_heatmap has returned at charts.py:216-217.
Grid(data, xs, ys) ==
    LET y_bins == Len(ys) - 1
        placed == {<<find_bin_index(d[1], xs), find_bin_index(d[2], ys), d[3][1]>> :
                      d \in {e \in data : e[3] # Null}}
    IN {[x_idx |-> p[1], y_idx |-> y_bins - 1 - p[2], value |-> p[3]] :
           p \in {q \in placed : /\ q[1] >= 0
                                  /\ q[2] >= 0
                                  /\ y_bins - 1 - q[2] >= 0
                                  /\ y_bins - 1 - q[2] < y_bins}}

\* charts.py:272-449: the chart is the grid, the bounds of the value scale
\* and the character index of every cell that is drawn
create_heatmap_without_aggregation(data, xs, ys) ==
    IF data = {} THEN Message("No data to plot")
    ELSE LET grid == Grid(data, xs, ys)
             all_values == {cell.value : cell \in grid}
         IN IF all_values = {} THEN Message("No numeric values to plot")
            ELSE LET max_val == Greatest(all_values)
                     min_val == IF Least(all_values) >= 0 THEN 0 ELSE Least(all_values)
                 IN [kind |-> "chart",
                     x_bins |-> Len(xs) - 1,
                     y_bins |-> Len(ys) - 1,
                     grid |-> grid,
                     min_val |-> min_val,
                     max_val |-> max_val,
                     legend |-> IF min_val = max_val THEN <<>>
                                ELSE LegendParts(min_val, max_val),
                     drawn |-> {[x_idx |-> cell.x_idx, y_idx |-> cell.y_idx,
                                 idx |-> IF min_val = max_val THEN LenChars \div 2
                                         ELSE CharIndex(cell.value, min_val, max_val)] :
                                   cell \in {c \in grid : c.x_idx < Len(xs) - 1}}]

\* charts.py:158 and 161: width or 20, height or 15, for the width and
\* height of None that cli.py passes
DefaultWidth == 20

DefaultHeight == 15

\* The table behind the cursor is empty and create_heatmap has not been called
HeatInit ==
    /\ heat_rows = EmptyBag
    /\ value_field = <<>>
    /\ queries = <<>>
    /\ x_scale = <<>>
    /\ y_scale = <<>>
    /\ results = {}
    /\ heatmap = NoHeatmap

\* core.py:257-263: one more row is inserted into the table, before the
\* chart is asked for
InsertRow ==
    /\ heatmap = NoHeatmap
    /\ BagCardinality(heat_rows) < MaxHeatRows
    /\ \E r \in HeatRowSet : heat_rows' = heat_rows (+) SetToBag({r})
    /\ UNCHANGED <<value_field, queries, x_scale, y_scale, results, heatmap>>
    /\ UNCHANGED <<splitVars, delimVars, csvVars, aggVars, cmpVars, commandVars, scaleVars, plotVars>>

\* charts.py:122-269: create_heatmap(cursor, "x", "y", vf, table_name)
CreateHeatmap ==
    /\ heatmap = NoHeatmap
    /\ \E x_err \in RoundingErrors(ColumnMin(heat_rows, 1), ColumnMax(heat_rows, 1), DefaultWidth) :
       \E y_err \in RoundingErrors(ColumnMin(heat_rows, 2), ColumnMax(heat_rows, 2), DefaultHeight) :
          LET x_axis == build_axis_query(ColumnMin(heat_rows, 1), ColumnMax(heat_rows, 1),
                                         DefaultWidth, x_err)
              y_axis == build_axis_query(ColumnMin(heat_rows, 2), ColumnMax(heat_rows, 2),
                                         DefaultHeight, y_err)
              groups == Groups(heat_rows, x_axis, y_axis)
          IN \E vf \in ValueFields :
                /\ value_field' = vf
                /\ queries' = <<"range", "aggregate">>
                /\ x_scale' = x_axis.scale
                /\ y_scale' = y_axis.scale
                /\ IF SqlError(ValueExpr(vf))
                   THEN /\ results' = {}
                        /\ heatmap' = Caught
                   ELSE \E rows \in QueryResults(groups, ValueExpr(vf)) :
                           /\ results' = rows
                           /\ heatmap' = IF rows = {} THEN NoneReturned
                                         ELSE create_heatmap_without_aggregation(
                                                  Transformed(rows, x_axis, y_axis),
                                                  x_axis.scale, y_axis.scale)
    /\ UNCHANGED heat_rows
    /\ UNCHANGED <<splitVars, delimVars, csvVars, aggVars, cmpVars, commandVars, scaleVars, plotVars>>

HeatNext == InsertRow \/ CreateHeatmap

(***************************************************************************)
(* create_multi_comparison (charts/multi_comparison.py) and the deprecated *)
(* create_comparison (charts/comparison.py)                                *)
(*                                                                         *)
(* A value of the versions or metrics column is SQL NULL, an integer or a  *)
(* text; the value column holds integers. A row is                         *)
(* <<version, metric, value>>.                                             *)
(***************************************************************************)
SqlNull == [type |-> "null", n |-> 0, text |-> <<>>]

Integer(n) == [type |-> "integer", n |-> n, text |-> <<>>]

Text(t) == [type |-> "text", n |-> 0, text |-> t]

\* The characters of the model in the order of their code points
CodePoints ==
    <<"0", "1", "2", "3", "4", "5", "6", "7", "8", "9">> \o UpperLetters \o <<"_">> \o LowerLetters

CodePoint(c) == CHOOSE k \in 1..Len(CodePoints) : CodePoints[k] = c

\* s < t for two Python strings, and for two texts under sqlite's BINARY
\* collation
RECURSIVE TextLess(_, _)
TextLess(s, t) ==
    IF t = <<>> THEN FALSE
    ELSE IF s = <<>> THEN TRUE
    ELSE IF s[1] # t[1] THEN CodePoint(s[1]) < CodePoint(t[1])
    ELSE TextLess(Tail(s), Tail(t))

\* ORDER BY of sqlite: NULL first, then the integers, then the texts
SqlLess(a, b) ==
    IF a.type # b.type
    THEN a.type = "null" \/ (a.type = "integer" /\ b.type = "text")
    ELSE IF a.type = "integer" THEN a.n < b.n
    ELSE IF a.type = "text" THEN TextLess(a.text, b.text)
    ELSE FALSE

\* The values of S in ORDER BY order
RECURSIVE OrderBy(_)
OrderBy(S) ==
    IF S = {} THEN <<>>
    ELSE LET first == CHOOSE a \in S : \A b \in S \ {a} : SqlLess(a, b)
         IN <<first>> \o OrderBy(S \ {first})

\* str(n) of a natural number
RECURSIVE DigitsOf(_)
DigitsOf(n) ==
    IF n < 10 THEN <<CodePoints[n + 1]>>
    ELSE DigitsOf(n \div 10) \o <<CodePoints[(n % 10) + 1]>>

Abs(n) == IF n < 0 THEN -n ELSE n

\* str(value) of what the sqlite3 module gives for a column value
Str(value) ==
    IF value.type = "text" THEN value.text
    ELSE IF value.type = "integer"
    THEN (IF value.n < 0 THEN <<"-">> ELSE <<>>) \o DigitsOf(Abs(value.n))
    ELSE <<"N", "o", "n", "e">>

\* The version identifiers of the model: two integers and two texts, of
\* eight and of nine characters
VersionValues ==
    {Integer(7), Integer(8),
     Text(<<"b", "a", "s", "e", "l", "i", "n", "e">>),
     Text(<<"c", "a", "n", "d", "i", "d", "a", "t", "e">>)}

MetricValues == {Text(<<"m">>), Text(<<"n">>)}

\* The value of the rows of a version
ValueOf(version) ==
    IF version \in {Integer(8), Text(<<"c", "a", "n", "d", "i", "d", "a", "t", "e">>)}
    THEN 15 ELSE 10

\* The rows a table of the model is made of: every version with every
\* metric, a row without a version and a row without a metric
CmpRowSet ==
    {<<version, metric, ValueOf(version)>> : version \in VersionValues, metric \in MetricValues}
    \cup {<<SqlNull, Text(<<"m">>), 5>>,
          <<Text(<<"b", "a", "s", "e", "l", "i", "n", "e">>), SqlNull, 10>>}

VersionQueryKeepingNull(rows) == OrderBy({r[1] : r \in BagToSet(rows)})

\* multi_comparison.py:76-81 and comparison.py:77-82: SELECT DISTINCT
\* versions_field ... WHERE versions_field IS NOT NULL ORDER BY
\* versions_field
VersionQuery(rows) == OrderBy({r[1] : r \in {q \in BagToSet(rows) : q[1] # SqlNull}})

\* display_mode.py:6-14: the members of the enum DisplayMode
DisplayMode ==
    {"FULL", "COMPACT", "VALUE", "DIFF", "PERCENT", "VALUE_DIFF", "VALUE_PERCENT"}

\* display_mode.py:19-27
mode_map ==
    (<<"f", "u", "l", "l">> :> "FULL")
    @@ (<<"c", "o", "m", "p", "a", "c", "t">> :> "COMPACT")
    @@ (<<"v", "a", "l", "u", "e">> :> "VALUE")
    @@ (<<"d", "i", "f", "f">> :> "DIFF")
    @@ (<<"p", "e", "r", "c", "e", "n", "t">> :> "PERCENT")
    @@ (<<"v", "a", "l", "u", "e", "-", "d", "i", "f", "f">> :> "VALUE_DIFF")
    @@ (<<"v", "a", "l", "u", "e", "-", "p", "e", "r", "c", "e", "n", "t">> :> "VALUE_PERCENT")

\* display_mode.py:16-32: the member for a name, in any case of letters;
\* any other string raises ValueError
from_string(mode_str) ==
    IF Lower(mode_str) \in DOMAIN mode_map THEN mode_map[Lower(mode_str)] ELSE "ValueError"

CompactOnValueError(parsed) == IF parsed = "ValueError" THEN "COMPACT" ELSE parsed

\* multi_comparison.py:57-62 and comparison.py:57-63: the mode the chart is
\* rendered in
FullOnValueError(parsed) == IF parsed = "ValueError" THEN "FULL" ELSE parsed

ParsedMode(mode_str) == FullOnValueError(from_string(mode_str))

\* multi_comparison.py:65-73 and comparison.py:66-74: value_expr, built as
\* create_heatmap builds it
CmpValueExpr(vf) == ValueExpr(vf)

\* The rows of the table with the given metric and version, each as many
\* times as the table holds it
CmpGroup(rows, metric, version) ==
    [r \in {q \in BagToSet(rows) : q[2] = metric /\ q[1] = version} |-> CopiesIn(r, rows)]

\* The sum of the values of a group
RECURSIVE SumOfValues(_, _)
SumOfValues(group, S) ==
    IF S = {} THEN 0
    ELSE LET r == CHOOSE q \in S : TRUE
         IN CopiesIn(r, group) * r[3] + SumOfValues(group, S \ {r})

\* What sqlite gives for value_expr over a group: COUNT(*) counts its rows
\* and SUM(v) adds their values
CmpEvaluate(value_expr, group) ==
    IF value_expr[1] = <<"C", "O", "U", "N", "T">>
    THEN BagCardinality(group)
    ELSE SumOfValues(group, BagToSet(group))

\* multi_comparison.py:109-124: the rows <<metric, version, value>> of the
\* data query: one per metric and version of the rows WHERE metrics_field
\* IS NOT NULL; a row without a version belongs to a group of its own
DataQuery(rows, value_expr) ==
    {<<key[1], key[2], CmpEvaluate(value_expr, CmpGroup(rows, key[1], key[2]))>> :
        key \in {<<r[2], r[1]>> : r \in {q \in BagToSet(rows) : q[2] # SqlNull}}}

\* comparison.py:102-122: the same query, WHERE versions_field IN
\* (version_a, version_b) AND metrics_field IS NOT NULL
DataQueryOfTwo(rows, value_expr, version_a, version_b) ==
    {d \in DataQuery(rows, value_expr) : d[2] \in {version_a, version_b}}

\* multi_comparison.py:130-134 and 189: sorted(metric_data.keys())
Metrics(data) == OrderBy({d[1] : d \in data})

GetOfAnyMetric(data, metric, version) ==
    IF \E d \in data : d[2] = version
    THEN (CHOOSE d \in data : d[2] = version)[3]
    ELSE 0

\* multi_comparison.py:192-193: metric_data[metric].get(version, 0)
Get(data, metric, version) ==
    IF \E d \in data : d[1] = metric /\ d[2] = version
    THEN (CHOOSE d \in data : d[1] = metric /\ d[2] = version)[3]
    ELSE 0

\* baseline == v, for the str baseline and a value of the versions column
EqualsText(string, value) == value = Text(string)

\* multi_comparison.py:96: baseline not in versions
NotInVersions(string, versions) ==
    \A k \in 1..Len(versions) : ~EqualsText(string, versions[k])

\* multi_comparison.py:97: ', '.join(versions) raises TypeError when a
\* version is not a str
JoinRaises(versions) == \E k \in 1..Len(versions) : versions[k].type # "text"

RECURSIVE Join(_)
Join(versions) ==
    IF versions = <<>> THEN <<>>
    ELSE IF Len(versions) = 1 THEN versions[1].text
    ELSE versions[1].text \o <<",", " ">> \o Join(Tail(versions))

\* multi_comparison.py:97: the message of an override that is not found,
\* with the two values the f-string puts into it
BaselineNotFound(string, versions) ==
    [kind |-> "message",
     text |-> "Baseline version '{baseline}' not found. Available versions: {', '.join(versions)}",
     baseline |-> string,
     versions |-> Join(versions)]

WithoutNothing(versions, string) == versions

\* multi_comparison.py:98-99: [v for v in versions if v != baseline]
Without(versions, string) == SelectSeq(versions, LAMBDA v : ~EqualsText(string, v))

AnyNameShort(names, max_length) ==
    \E k \in 1..Len(names) : Len(Str(names[k])) <= max_length

\* multi_comparison.py:8-23; comparison.py:13-28 has max_length 10
should_use_original_names(names, max_length) ==
    IF names = <<>> THEN FALSE
    ELSE \A k \in 1..Len(names) : Len(Str(names[k])) <= max_length

MaxLength == 8

LegacyMaxLength == 10

\* f"{n:.6g}" of an integer of fewer than seven digits
FormatG(n) == (IF n < 0 THEN <<"-">> ELSE <<>>) \o DigitsOf(Abs(n))

\* f"{diff:+.6g}" of a float that is a whole number of fewer than seven
\* digits
FormatSigned(diff) == (IF diff < 0 THEN <<"-">> ELSE <<"+">>) \o DigitsOf(Abs(diff))

\* The nearest whole number to num / den, for num >= 0 and den > 0, the even
\* one of two that are equally near
RoundHalfEven(num, den) ==
    LET q == num \div den
        r == num % den
    IN IF 2 * r > den THEN q + 1
       ELSE IF 2 * r < den THEN q
       ELSE IF q % 2 = 0 THEN q ELSE q + 1

\* multi_comparison.py:204-207 and 220: f"{pct_diff:+.1f}%", where pct_diff
\* is (diff / baseline_num) * 100, or the integer 0 when both are 0; a
\* quotient of 0 keeps the sign of the divisor
FormatPercent(diff, baseline_num) ==
    IF baseline_num = 0 THEN <<"+", "0", ".", "0", "%">>
    ELSE LET tenths == RoundHalfEven(Abs(diff) * 1000, Abs(baseline_num))
             negative == IF diff = 0 THEN baseline_num < 0
                         ELSE (diff < 0) # (baseline_num < 0)
         IN (IF negative THEN <<"-">> ELSE <<"+">>)
            \o DigitsOf(tenths \div 10) \o <<".">> \o DigitsOf(tenths % 10) \o <<"%">>

\* "inf%", in place of a percentage over a baseline of 0
InfPercent == <<"i", "n", "f", "%">>

PercentNeverInf(diff, baseline_num) == FormatPercent(diff, baseline_num)

\* multi_comparison.py:217-220, 224-227 and 229: "inf%" when the baseline is
\* 0 and the difference is not
PercentOrInf(diff, baseline_num) ==
    IF baseline_num = 0 /\ diff # 0 THEN InfPercent ELSE FormatPercent(diff, baseline_num)

\* multi_comparison.py:198-231 and comparison.py:174-205: the cell of a
\* comparison version, for the values of the baseline and of the version
FormatCell(mode, baseline_val, comp_val) ==
    LET diff == comp_val - baseline_val
        comp_str == FormatG(comp_val)
    IN IF mode = "VALUE" THEN comp_str
       ELSE IF mode = "DIFF" THEN FormatSigned(diff)
       ELSE IF mode = "PERCENT" \/ mode = "COMPACT" THEN PercentOrInf(diff, baseline_val)
       ELSE IF mode = "VALUE_DIFF"
       THEN comp_str \o <<" ", "(">> \o FormatSigned(diff) \o <<")">>
       ELSE IF mode = "VALUE_PERCENT"
       THEN comp_str \o <<" ", "(">> \o PercentOrInf(diff, baseline_val) \o <<")">>
       ELSE comp_str \o <<" ">> \o FormatSigned(diff)
            \o <<" ", "(">> \o PercentOrInf(diff, baseline_val) \o <<")">>

\* multi_comparison.py:164: chr(ord('B') + i), for i counted from 0
Letter(index) == <<UpperLetters[index + 2]>>

\* multi_comparison.py:158-169: the lines of the legend
Legend(base, others) ==
    <<<<"B", "a", "s", "e", "l", "i", "n", "e", " ", "(", "A", ")", ":", " ">> \o Str(base)>>
    \o [k \in 1..Len(others) |-> Letter(k - 1) \o <<":", " ">> \o Str(others[k])]
    \o <<<<>>>>

\* multi_comparison.py:262-280: the parts of the row of every metric
ChartRows(data, mode, base, others) ==
    LET metrics == Metrics(data)
    IN [j \in 1..Len(metrics) |->
           <<Str(metrics[j]), FormatG(Get(data, metrics[j], base))>>
           \o [k \in 1..Len(others) |->
                  FormatCell(mode, Get(data, metrics[j], base),
                             Get(data, metrics[j], others[k]))]]

\* multi_comparison.py:176-179: the values of the metrics that have one for
\* the baseline version
BaselineValues(data, base) == {d[3] : d \in {e \in data : e[2] = base}}

\* multi_comparison.py:172-173, 181 and 236: the width of a column before
\* its header is taken into account: 7 at least for the metrics, the
\* longest value a metric has for the baseline, or 8 when no metric has
\* one, and the longest cell of a comparison version
ContentWidthNoDefault(rows, column, baseline_values) ==
    Greatest({Len(rows[j][column]) : j \in 1..Len(rows)})

ContentWidth(rows, column, baseline_values) ==
    IF column = 1 THEN Greatest({7} \cup {Len(rows[j][1]) : j \in 1..Len(rows)})
    ELSE IF column = 2
    THEN IF baseline_values = {} THEN 8
         ELSE Greatest({Len(FormatG(val)) : val \in baseline_values})
    ELSE Greatest({Len(rows[j][column]) : j \in 1..Len(rows)})

\* multi_comparison.py:171-183 and 236-238: metric_width, baseline_width
\* and the width of every comparison version, in the order of the columns
Widths(rows, header, baseline_values) ==
    [column \in 1..(Len(header) + 1) |->
        IF column = 1 THEN ContentWidth(rows, 1, baseline_values)
        ELSE Greatest({ContentWidth(rows, column, baseline_values), Len(header[column - 1])})]

\* multi_comparison.py:146-282: the chart, as the lines of its legend, the
\* labels of its header, the parts of its rows and the widths they are
\* padded to before they are joined
MultiComparisonChart(data, mode, base, others) ==
    LET use_original == should_use_original_names(<<base>> \o others, MaxLength)
        header == IF use_original
                  THEN <<Str(base)>> \o [k \in 1..Len(others) |-> Str(others[k])]
                  ELSE <<<<"A">>>> \o [k \in 1..Len(others) |-> Letter(k - 1)]
        rows == ChartRows(data, mode, base, others)
    IN [kind |-> "chart",
        legend |-> IF use_original THEN <<>> ELSE Legend(base, others),
        header |-> header,
        rows |-> rows,
        widths |-> Widths(rows, header, BaselineValues(data, base))]

\* str.ljust(width)
LJust(text, width) == text \o [k \in 1..(width - Len(text)) |-> " "]

\* sep.join(parts)
RECURSIVE JoinParts(_, _)
JoinParts(parts, sep) ==
    IF parts = <<>> THEN <<>>
    ELSE IF Len(parts) = 1 THEN parts[1]
    ELSE parts[1] \o sep \o JoinParts(Tail(parts), sep)

\* multi_comparison.py:248-280: the header line, the separator line and the
\* line of every metric, as create_multi_comparison pads and joins them
TableLines(chart) ==
    LET columns == 1..Len(chart.widths)
        filled(char, width) == [k \in 1..width |-> char]
    IN [header |-> JoinParts([c \in columns |->
                                 IF c = 1 THEN filled(" ", chart.widths[1])
                                 ELSE LJust(chart.header[c - 1], chart.widths[c])],
                             <<" ", "|", " ">>),
        separator |-> JoinParts([c \in columns |-> filled("-", chart.widths[c])],
                                <<"-", "+", "-">>),
        rows |-> [j \in 1..Len(chart.rows) |->
                     JoinParts([c \in columns |-> LJust(chart.rows[j][c], chart.widths[c])],
                               <<" ", "|", " ">>)]]

\* comparison.py:218: value_suffix
ValueSuffix(vf) == IF vf # <<>> THEN <<" ">> \o vf ELSE <<" ", "c", "o", "u", "n", "t">>

\* comparison.py:144-258: the chart of the first two versions
ComparisonChart(data, mode, vf, version_a, version_b) ==
    LET use_original == should_use_original_names(<<version_a, version_b>>, LegacyMaxLength)
    IN [kind |-> "chart",
        legend |-> IF use_original THEN <<>>
                   ELSE <<<<"A", ":", " ">> \o Str(version_a),
                          <<"B", ":", " ">> \o Str(version_b),
                          <<>>>>,
        header |-> IF use_original
                   THEN <<Str(version_a) \o ValueSuffix(vf), Str(version_b) \o ValueSuffix(vf)>>
                   ELSE <<<<"A">> \o ValueSuffix(vf), <<"B">> \o ValueSuffix(vf)>>,
        rows |-> ChartRows(data, mode, version_a, <<version_b>>)]

\* The display_mode arguments of the model: the seven names, one of them
\* in other letter case, and a string that is no name
DisplayModeArgs ==
    DOMAIN mode_map
    \cup {<<"P", "e", "r", "c", "e", "n", "t">>, <<"b", "o", "g", "u", "s">>}

\* The baseline arguments of the model: None, a text of VersionValues, a
\* text that is no version, and the digits of the version 7
BaselineArgs ==
    {<<>>, <<"b", "a", "s", "e", "l", "i", "n", "e">>, <<"n", "o", "p", "e">>, <<"7">>}

\* The value_field arguments of the model: None, the sum of the value
\* column, and a column the table does not have
CmpValueFields == {<<>>, <<"s", "u", "m", "(", "v", ")">>, <<"w">>}

\* The table behind the cursor is empty and no chart has been asked for
CmpInit ==
    /\ cmp_rows = EmptyBag
    /\ cmp_function = "none"
    /\ cmp_value_field = <<>>
    /\ display_mode = <<>>
    /\ baseline = <<>>
    /\ cmp_queries = <<>>
    /\ baseline_version = <<>>
    /\ comparison_versions = <<>>
    /\ comparison = NotCompared

\* core.py:257-263: one more row is inserted into the table, before the
\* chart is asked for
InsertCmpRow ==
    /\ cmp_function = "none"
    /\ BagCardinality(cmp_rows) < MaxCmpRows
    /\ \E r \in CmpRowSet : cmp_rows' = cmp_rows (+) SetToBag({r})
    /\ UNCHANGED <<cmp_function, cmp_value_field, display_mode, baseline, cmp_queries,
                   baseline_version, comparison_versions, comparison>>
    /\ UNCHANGED <<splitVars, delimVars, csvVars, aggVars, heatVars, commandVars, scaleVars, plotVars>>

\* multi_comparison.py:26-287: create_multi_comparison(cursor, "version",
\* "metric", vf, table_name, display_mode=dm, baseline=b) on a table of the
\* given rows: the queries it executes, its locals baseline_version and
\* comparison_versions, and what it returns
create_multi_comparison(rows, vf, dm, b) ==
    LET mode == ParsedMode(dm)
        versions == VersionQuery(rows)
        base == IF b # <<>> THEN Text(b) ELSE versions[1]
        others == IF b # <<>> THEN Without(versions, b) ELSE Tail(versions)
        data == DataQuery(rows, CmpValueExpr(vf))
    IN IF Len(versions) < 2
       THEN [queries |-> <<"versions">>,
             baseline_version |-> <<>>,
             comparison_versions |-> <<>>,
             returned |-> IF versions = <<>>
                          THEN Message("No versions found")
                          ELSE Message("Need at least 2 versions to compare")]
       ELSE IF b # <<>> /\ NotInVersions(b, versions)
       THEN [queries |-> <<"versions">>,
             baseline_version |-> <<>>,
             comparison_versions |-> <<>>,
             returned |-> IF JoinRaises(versions) THEN Caught
                          ELSE BaselineNotFound(b, versions)]
       ELSE [queries |-> <<"versions", "data">>,
             baseline_version |-> <<base>>,
             comparison_versions |-> others,
             returned |-> IF SqlError(CmpValueExpr(vf)) THEN Caught
                          ELSE IF data = {} THEN Message("No data to compare")
                          ELSE MultiComparisonChart(data, mode, base, others)]

\* A call of create_multi_comparison on the table
CreateMultiComparison ==
    /\ cmp_function = "none"
    /\ \E dm \in DisplayModeArgs, b \in BaselineArgs, vf \in CmpValueFields :
          LET call == create_multi_comparison(cmp_rows, vf, dm, b)
          IN /\ cmp_function' = "create_multi_comparison"
             /\ display_mode' = dm
             /\ baseline' = b
             /\ cmp_value_field' = vf
             /\ cmp_queries' = call.queries
             /\ baseline_version' = call.baseline_version
             /\ comparison_versions' = call.comparison_versions
             /\ comparison' = call.returned
    /\ UNCHANGED cmp_rows
    /\ UNCHANGED <<splitVars, delimVars, csvVars, aggVars, heatVars, commandVars, scaleVars, plotVars>>

\* comparison.py:31-263: create_comparison(cursor, "version", "metric", vf,
\* table_name, display_mode=dm)
CreateComparison ==
    /\ cmp_function = "none"
    /\ \E dm \in DisplayModeArgs, vf \in CmpValueFields :
          LET mode == ParsedMode(dm)
              versions == VersionQuery(cmp_rows)
              data == DataQueryOfTwo(cmp_rows, CmpValueExpr(vf), versions[1], versions[2])
          IN /\ cmp_function' = "create_comparison"
             /\ display_mode' = dm
             /\ cmp_value_field' = vf
             /\ UNCHANGED baseline
             /\ IF Len(versions) < 2
                THEN /\ cmp_queries' = <<"versions">>
                     /\ UNCHANGED <<baseline_version, comparison_versions>>
                     /\ comparison' = IF versions = <<>>
                                      THEN Message("No versions found")
                                      ELSE Message("Need at least 2 versions to compare")
                ELSE /\ cmp_queries' = <<"versions", "data">>
                     /\ baseline_version' = <<versions[1]>>
                     /\ comparison_versions' = <<versions[2]>>
                     /\ comparison' = IF SqlError(CmpValueExpr(vf)) THEN Caught
                                      ELSE IF data = {} THEN Message("No data to compare")
                                      ELSE ComparisonChart(data, mode, vf, versions[1],
                                                           versions[2])
    /\ UNCHANGED cmp_rows
    /\ UNCHANGED <<splitVars, delimVars, csvVars, aggVars, heatVars, commandVars, scaleVars, plotVars>>

CmpNext == InsertCmpRow \/ CreateMultiComparison \/ CreateComparison

(***************************************************************************)
(* parse_chart_command (query_builder.py:29-86) and the command aliases of *)
(* cli.py. An argument is a string.                                        *)
(***************************************************************************)
\* query_builder.py:45-49
chart_aliases ==
    ("hm" :> "heatmap") @@ ("cmp" :> "comparison") @@ ("mcmp" :> "multi-comparison")

\* query_builder.py:50: chart_aliases.get(chart_type, chart_type)
ChartType(name) == IF name \in DOMAIN chart_aliases THEN chart_aliases[name] ELSE name

\* cli.py:97-107: command_aliases.get(command_type, command_type)
command_aliases ==
    ("q" :> "query") @@ ("a" :> "add") @@ ("f" :> "filter") @@ ("g" :> "groupby")
    @@ ("hm" :> "heatmap") @@ ("cmp" :> "multi-comparison")
    @@ ("comparison" :> "multi-comparison") @@ ("mcmp" :> "multi-comparison")

CommandType(name) == IF name \in DOMAIN command_aliases THEN command_aliases[name] ELSE name

\* What parse_chart_command returns, and the ValueError it raises
ParsedAs(chart_type, options) ==
    [kind |-> "returned", chart_type |-> chart_type, options |-> options, message |-> ""]

ValueError(message, chart_type) ==
    [kind |-> "raised", chart_type |-> chart_type, options |-> <<>>, message |-> message]

\* query_builder.py:56-60, 67-71 and 78-82: the options: two fields and
\* args[3] if len(args) > 3 else None
Options(first, second, arguments) ==
    <<<<first, arguments[2]>>, <<second, arguments[3]>>,
      <<"value_field", IF Len(arguments) > 3 THEN arguments[4] ELSE None>>>>

\* query_builder.py:29-86
parse_chart_command(arguments) ==
    IF arguments = <<>> THEN ValueError("No chart type specified", "")
    ELSE LET chart_type == ChartType(arguments[1])
         IN IF chart_type = "heatmap"
            THEN IF Len(arguments) < 3
                 THEN ValueError("Heatmap requires at least x_field and y_field", "")
                 ELSE ParsedAs(chart_type, Options("x_field", "y_field", arguments))
            ELSE IF chart_type = "comparison"
            THEN IF Len(arguments) < 3
                 THEN ValueError("Comparison requires at least versions_field and metrics_field", "")
                 ELSE ParsedAs(chart_type, Options("versions_field", "metrics_field", arguments))
            ELSE IF chart_type = "multi-comparison"
            THEN IF Len(arguments) < 3
                 THEN ValueError("Multi-comparison requires at least versions_field and metrics_field", "")
                 ELSE ParsedAs(chart_type, Options("versions_field", "metrics_field", arguments))
            ELSE ValueError("Unknown chart type: {chart_type}", chart_type)

\* The arguments of the model: the names of the chart types, their short
\* forms, a name of no chart type, and two field names
ArgumentSet ==
    {"heatmap", "hm", "comparison", "cmp", "multi-comparison", "mcmp", "barchart",
     "versions", "avg(latency)"}

\* The argument lists of the model
ArgumentLists == UNION {[1..n -> ArgumentSet] : n \in 0..MaxArgs}

\* parse_chart_command is about to be called with some arguments
CommandInit ==
    /\ args \in ArgumentLists
    /\ chart_command = NotParsedCommand

\* query_builder.py:29-86: parse_chart_command(args), called as the tests
\* call it
ParseChartCommand ==
    /\ chart_command = NotParsedCommand
    /\ chart_command' = parse_chart_command(args)
    /\ UNCHANGED args
    /\ UNCHANGED <<splitVars, delimVars, csvVars, aggVars, heatVars, cmpVars, scaleVars, plotVars>>

\* cli.py:93-107 and 331-332: the chart mode of the command line, which
\* maps the first argument before it calls parse_chart_command
ChartMode ==
    /\ chart_command = NotParsedCommand
    /\ args # <<>>
    /\ CommandType(args[1]) \notin {"query", "add", "filter", "groupby"}
    /\ chart_command' = parse_chart_command(<<CommandType(args[1])>> \o Tail(args))
    /\ UNCHANGED args
    /\ UNCHANGED <<splitVars, delimVars, csvVars, aggVars, heatVars, cmpVars, scaleVars, plotVars>>

CommandNext == ParseChartCommand \/ ChartMode

(***************************************************************************)
(* create_numeric_scale and find_bin_index, called on their own            *)
(* (charts/utils.py:19-69, the same code as charts.py:21-71)               *)
(***************************************************************************)
\* The whole numbers min_val and max_val are drawn from
ScaleEnds == (-MaxScaleEnd)..MaxScaleEnd

\* The target_steps of the model: 1, the default 10, and the 15 and 20 that
\* create_heatmap passes
TargetSteps == {1, 10, 15, 20}

\* The values looked up in a scale: the whole and the half numbers around
\* the range of the model, and the edges of the scale
BinValues(scale) ==
    {<<500 * n, 0>> : n \in (-2 * (MaxScaleEnd + 1))..(2 * (MaxScaleEnd + 1))}
    \cup {scale[k] : k \in 1..Len(scale)}

\* The arguments of create_numeric_scale, with min_val <= max_val and
\* target_steps >= 1
ScaleInit ==
    /\ scale_min \in {<<n>> : n \in ScaleEnds}
    /\ scale_max \in {<<n>> : n \in ScaleEnds}
    /\ scale_min[1] <= scale_max[1]
    /\ scale_steps \in TargetSteps
    /\ numeric_scale = <<>>
    /\ bin_value = <<>>
    /\ bin_index = <<>>

\* charts/utils.py:19-58: create_numeric_scale(min_val, max_val, target_steps)
CreateNumericScale ==
    /\ numeric_scale = <<>>
    /\ \E err \in RoundingErrors(scale_min, scale_max, scale_steps) :
          numeric_scale' = create_numeric_scale(Float(scale_min[1]), Float(scale_max[1]),
                                                scale_steps, err)
    /\ UNCHANGED <<scale_min, scale_max, scale_steps, bin_value, bin_index>>
    /\ UNCHANGED <<splitVars, delimVars, csvVars, aggVars, heatVars, cmpVars, commandVars, plotVars>>

\* charts/utils.py:61-69: find_bin_index(value, scale) on the scale returned
FindBinIndex ==
    /\ numeric_scale # <<>>
    /\ bin_index = <<>>
    /\ \E value \in BinValues(numeric_scale) :
          /\ bin_value' = value
          /\ bin_index' = <<find_bin_index(value, numeric_scale)>>
    /\ UNCHANGED <<scale_min, scale_max, scale_steps, numeric_scale>>
    /\ UNCHANGED <<splitVars, delimVars, csvVars, aggVars, heatVars, cmpVars, commandVars, plotVars>>

ScaleNext == CreateNumericScale \/ FindBinIndex

(***************************************************************************)
(* create_heatmap_without_aggregation, called on its own                   *)
(* (charts.py:270-449)                                                     *)
(***************************************************************************)
\* The x_scale and the y_scale of the model's calls: the edges 0, 1 and 2
PlotScale == <<Float(0), Float(1), Float(2)>>

\* The cells data can have a row for: the edges that start a bin
PlotCells == {Float(0), Float(1)} \X {Float(0), Float(1)}

\* The values of the rows of data: None and the whole numbers of the model
PlotValues == {Null} \cup {<<n>> : n \in (-MaxCellValue)..MaxCellValue}

\* data has at most one row <<x, y, value>> per cell, as the rows of a
\* query with GROUP BY have
PlotInit ==
    /\ \E present \in SUBSET PlotCells :
       \E value_of \in [PlotCells -> PlotValues] :
          plot_data = {<<c[1], c[2], value_of[c]>> : c \in present}
    /\ plot = NotPlotted

\* charts.py:270-449: create_heatmap_without_aggregation(data, x_scale,
\* y_scale)
CreateHeatmapWithoutAggregation ==
    /\ plot = NotPlotted
    /\ plot' = create_heatmap_without_aggregation(plot_data, PlotScale, PlotScale)
    /\ UNCHANGED plot_data
    /\ UNCHANGED <<splitVars, delimVars, csvVars, aggVars, heatVars, cmpVars, commandVars,
                   scaleVars>>

PlotNext == CreateHeatmapWithoutAggregation

(***************************************************************************)
(* The specifications: one per component, the others staying idle.         *)
(***************************************************************************)
InitSplit == SplitInit /\ DelimIdle /\ CsvIdle /\ AggIdle /\ HeatIdle /\ CmpIdle /\ CommandIdle /\ ScaleIdle /\ PlotIdle

SpecSplit == InitSplit /\ [][SplitNext]_vars

InitDelim == DelimInit /\ SplitIdle /\ CsvIdle /\ AggIdle /\ HeatIdle /\ CmpIdle /\ CommandIdle /\ ScaleIdle /\ PlotIdle

SpecDelim == InitDelim /\ [][DelimNext]_vars

InitCsv == CsvInit /\ SplitIdle /\ DelimIdle /\ AggIdle /\ HeatIdle /\ CmpIdle /\ CommandIdle /\ ScaleIdle /\ PlotIdle

SpecCsv == InitCsv /\ [][CsvNext]_vars

InitAgg == AggInit /\ SplitIdle /\ DelimIdle /\ CsvIdle /\ HeatIdle /\ CmpIdle /\ CommandIdle /\ ScaleIdle /\ PlotIdle

SpecAgg == InitAgg /\ [][AggNext]_vars

InitHeat == HeatInit /\ SplitIdle /\ DelimIdle /\ CsvIdle /\ AggIdle /\ CmpIdle /\ CommandIdle /\ ScaleIdle /\ PlotIdle

SpecHeat == InitHeat /\ [][HeatNext]_vars

InitCmp == CmpInit /\ SplitIdle /\ DelimIdle /\ CsvIdle /\ AggIdle /\ HeatIdle /\ CommandIdle /\ ScaleIdle /\ PlotIdle

SpecCmp == InitCmp /\ [][CmpNext]_vars

InitCommand == CommandInit /\ SplitIdle /\ DelimIdle /\ CsvIdle /\ AggIdle /\ HeatIdle /\ CmpIdle /\ ScaleIdle /\ PlotIdle

SpecCommand == InitCommand /\ [][CommandNext]_vars

InitScale ==
    ScaleInit /\ SplitIdle /\ DelimIdle /\ CsvIdle /\ AggIdle /\ HeatIdle /\ CmpIdle /\ CommandIdle
    /\ PlotIdle

SpecScale == InitScale /\ [][ScaleNext]_vars

InitPlot ==
    PlotInit /\ SplitIdle /\ DelimIdle /\ CsvIdle /\ AggIdle /\ HeatIdle /\ CmpIdle /\ CommandIdle
    /\ ScaleIdle

SpecPlot == InitPlot /\ [][PlotNext]_vars

\* cli.py:338-371: a run makes one chart of the table it has loaded, with
\* create_heatmap or with a comparison function
InitCharts == HeatInit /\ CmpInit /\ SplitIdle /\ DelimIdle /\ CsvIdle /\ AggIdle /\ CommandIdle /\ ScaleIdle /\ PlotIdle

ChartsNext == (CmpIdle /\ HeatNext) \/ (HeatIdle /\ CmpNext)

SpecCharts == InitCharts /\ [][ChartsNext]_vars

(***************************************************************************)
(* What the splitter is specified to compute, stated over positions of the *)
(* input rather than as a scan.                                            *)
(***************************************************************************)
\* The quote character of the quoted span that is open just before position
\* k is read, or None: a span is opened at p by a quote character read
\* outside every span, and is closed only by the same character.
RECURSIVE OpenQuoteAt(_, _)
OpenQuoteAt(s, k) ==
    LET openers == {p \in 1..(k - 1) :
                       /\ s[p] \in QuoteChars
                       /\ OpenQuoteAt(s, p) = None
                       /\ \A j \in (p + 1)..(k - 1) : s[j] # s[p]}
    IN IF openers = {} THEN None ELSE s[CHOOSE p \in openers : TRUE]

\* The parenthesis depth just before position k is read: parentheses count
\* only outside quotes
DepthAt(s, k) ==
    Cardinality({p \in 1..(k - 1) : s[p] = "(" /\ OpenQuoteAt(s, p) = None})
    - Cardinality({p \in 1..(k - 1) : s[p] = ")" /\ OpenQuoteAt(s, p) = None})

\* The positions of the top-level commas
SplitPoints(s) ==
    {k \in 1..Len(s) : s[k] = "," /\ DepthAt(s, k) = 0 /\ OpenQuoteAt(s, k) = None}

\* The j-th top-level comma, j in 1..Cardinality(SplitPoints(s))
NthSplit(s, j) ==
    CHOOSE k \in SplitPoints(s) :
        Cardinality({p \in SplitPoints(s) : p < k}) = j - 1

\* The j-th segment of s, untrimmed; the last one has j = number of commas + 1
RawSegment(s, j) ==
    LET n == Cardinality(SplitPoints(s))
        from == IF j = 1 THEN 1 ELSE NthSplit(s, j - 1) + 1
        to == IF j = n + 1 THEN Len(s) ELSE NthSplit(s, j) - 1
    IN SubSeq(s, from, to)

\* C1: split_expressions splits at a comma iff the parenthesis depth is 0 and
\* no quoted span is open there (parentheses counted outside quotes only, a
\* quote closed only by its own character); every other character stays, in
\* order, in its segment, and every emitted segment is trimmed.
C1_SplitsAtTopLevelCommasOnly ==
    /\ quote_char = OpenQuoteAt(expr_string, i + 1)
    /\ paren_depth = DepthAt(expr_string, i + 1)
    /\ split_pc = "scan" =>
          Len(expressions) = Cardinality({k \in SplitPoints(expr_string) : k <= i})
    /\ split_pc = "done" =>
          /\ Len(expressions) \in {Cardinality(SplitPoints(expr_string)),
                                   Cardinality(SplitPoints(expr_string)) + 1}
          /\ \A j \in 1..Len(expressions) :
                expressions[j] = Strip(RawSegment(expr_string, j))

\* A finished split with one comma that splits and one that does not
C1_Witness ==
    /\ split_pc = "done"
    /\ SplitPoints(expr_string) # {}
    /\ \E k \in 1..Len(expr_string) :
          /\ expr_string[k] = ","
          /\ k \notin SplitPoints(expr_string)
          /\ DepthAt(expr_string, k) > 0
    /\ Len(expressions) = 2

\* C2: the final segment is dropped when it is empty or blank, every other
\* empty segment is kept: no trailing empty element after a trailing comma,
\* an empty element for a leading comma and between two consecutive commas,
\* and the empty list for the empty string.
C2_OnlyBlankFinalSegmentDropped ==
    split_pc = "done" =>
        LET n == Cardinality(SplitPoints(expr_string))
            last == Strip(RawSegment(expr_string, n + 1))
        IN /\ Len(expressions) = IF last = <<>> THEN n ELSE n + 1
           /\ \A j \in 1..n : expressions[j] = Strip(RawSegment(expr_string, j))
           /\ last # <<>> => expressions[n + 1] = last
           /\ expr_string = <<>> => expressions = <<>>

\* A leading comma, two consecutive commas and a trailing comma: <<"", "", "a">>
C2_Witness ==
    /\ split_pc = "done"
    /\ expr_string = <<",", ",", "a", ",", " ">>
    /\ expressions = <<<<>>, <<>>, <<"a">>>>

\* The end of the text that detect_delimiter reads: the position of the fifth
\* newline, or one past the end when the text has at most five lines
FifthLineEnd(text) ==
    LET nl == {p \in 1..Len(text) : text[p] = "\n"}
    IN IF Cardinality(nl) < SampleLines THEN Len(text) + 1
       ELSE CHOOSE p \in nl : Cardinality({q \in nl : q < p}) = SampleLines - 1

\* The occurrences of c in the first five lines
Occurrences(text, c) ==
    Cardinality({p \in 1..(FifthLineEnd(text) - 1) : text[p] = c})

\* C6: detect_delimiter returns the candidate among , ; tab space | with the
\* most occurrences in the first 5 lines, the earliest such candidate on a
\* tie (comma when none occurs); text after the fifth line does not matter.
C6_MostFrequentInFirstFiveLines ==
    delimiter # None =>
        \E k \in 1..Len(delimiters) :
            /\ delimiter = delimiters[k]
            /\ \A j \in 1..Len(delimiters) :
                  Occurrences(sample, delimiters[j]) <= Occurrences(sample, delimiter)
            /\ \A j \in 1..(k - 1) :
                  Occurrences(sample, delimiters[j]) < Occurrences(sample, delimiter)

\* Five newlines followed by a pipe: the pipe is on line 6, the answer is comma
C6_Witness ==
    /\ sample = <<"\n", "\n", "\n", "\n", "\n", "|">>
    /\ delimiter = ","

(***************************************************************************)
(* CSV ingestion: what a finished call is specified to leave behind.       *)
(***************************************************************************)
\* The rows of the input that are data, given what the call decided about
\* the first row
CsvData == IF has_headers = <<TRUE>> THEN Tail(all_rows) ELSE all_rows

\* C3: a successful create_table_from_csv returns one column name per field
\* of the header row (f1..fN of the first row when headerless) and the table
\* holds one row per data row, each of that width: short rows padded on the
\* right with NULL, long rows truncated.
C3_OneColumnPerHeaderFieldOneRowPerDataRow ==
    csv_result.status = "returned" =>
        LET width == Len(all_rows[1])
        IN /\ Len(csv_result.headers) = width
           /\ has_headers = <<FALSE>> =>
                 \A k \in 1..width : csv_result.headers[k] = <<"f", ToString(k)>>
           /\ table.exists
           /\ Len(table.columns) = width
           /\ \A k \in 1..width : table.columns[k][1] = csv_result.headers[k]
           /\ Len(table.rows) = Len(CsvData)
           /\ \A r \in 1..Len(CsvData) :
                 /\ Len(table.rows[r]) = width
                 /\ \A k \in 1..width :
                       IF k <= Len(CsvData[r])
                       THEN table.rows[r][k].text = CsvData[r][k]
                       ELSE table.rows[r][k].kind = "null"

\* A header of two fields and a data row of one field, padded with NULL
C3_Witness ==
    /\ csv_result.status = "returned"
    /\ has_headers = <<TRUE>>
    /\ Len(all_rows[1]) = 2
    /\ Len(all_rows[2]) = 1
    /\ table.rows[1][1].kind = "text"
    /\ table.rows[1][2].kind = "null"

\* The cells of column k that are present and not empty
FilledCells(k) ==
    {r \in 1..Len(CsvData) : k <= Len(CsvData[r]) /\ CsvData[r][k] # <<>>}

\* The declared type of column k is inferred from its filled cells alone
InferredFromFilledCells(k) ==
    table.columns[k][2] =
        IF FilledCells(k) = {} THEN "TEXT"
        ELSE IF \A r \in FilledCells(k) : IsIntText(CsvData[r][k]) THEN "INTEGER"
        ELSE IF \A r \in FilledCells(k) : IsFloatText(CsvData[r][k]) THEN "REAL"
        ELSE "TEXT"

\* C4 as stated: an empty field of a data row is ignored when the type of
\* its column is inferred and is stored as NULL.
C4_EmptyFieldStoredAsNull ==
    csv_result.status = "returned" =>
        /\ \A k \in 1..Len(table.columns) : InferredFromFilledCells(k)
        /\ \A r \in 1..Len(CsvData) : \A k \in 1..Len(table.columns) :
              (k <= Len(CsvData[r]) /\ CsvData[r][k] = <<>>)
                  => table.rows[r][k].kind = "null"

\* C4, amended: an empty field of a data row is ignored when the type of its
\* column is inferred and is stored as the empty string; NULL is stored only
\* for a field that is missing because the row is shorter than the header.
C4_EmptyFieldIgnoredForTypeStoredAsEmptyText ==
    csv_result.status = "returned" =>
        /\ \A k \in 1..Len(table.columns) : InferredFromFilledCells(k)
        /\ \A r \in 1..Len(CsvData) : \A k \in 1..Len(table.columns) :
              /\ (k <= Len(CsvData[r]) /\ CsvData[r][k] = <<>>)
                    => table.rows[r][k] = [kind |-> "text", text |-> <<>>]
              /\ table.rows[r][k].kind = "null" <=> k > Len(CsvData[r])

\* A column of a number and an empty field: inferred REAL, the empty field
\* stored as empty text
C4_Witness ==
    /\ csv_result.status = "returned"
    /\ has_headers = <<FALSE>>
    /\ all_rows = << <<<<"1", ".", "5">>>>, <<<<>>>> >>
    /\ table.columns[1][2] = "REAL"
    /\ table.rows[2][1] = [kind |-> "text", text |-> <<>>]

\* header_mode is one of the accepted values
ValidHeaderMode == header_mode \in {None, "auto", "yes", "no"}

\* The call raised the wrapped error with the given cause and left no table
FailedWith(cause) ==
    /\ csv_result.status = "raised"
    /\ csv_result.prefix = "Error parsing CSV: "
    /\ csv_result.cause = cause
    /\ table = NoTable

\* C5: create_table_from_csv fails with 'Error parsing CSV: <cause>' when the
\* input has zero rows, when no data row remains after the header row (one
\* row under header mode auto or yes), and when header_mode is invalid; no
\* table is created and no row inserted in these cases.
C5_FailsWrappedWithoutTable ==
    csv_result.status # "none" =>
        /\ all_rows = <<>> => FailedWith(<<"No data found in CSV">>)
        /\ (all_rows # <<>> /\ ~ValidHeaderMode) => FailedWith(<<"Invalid header_mode: ", header_mode>>)
        /\ (Len(all_rows) = 1 /\ header_mode \in {None, "auto", "yes"})
              => FailedWith(<<"No data rows found in CSV">>)
        /\ csv_result.status = "raised" =>
              (csv_result.prefix = "Error parsing CSV: " /\ table = NoTable)

\* A single row taken as the header: nothing is left to load
C5_Witness ==
    /\ Len(all_rows) = 1
    /\ header_mode = "yes"
    /\ FailedWith(<<"No data rows found in CSV">>)

\* The number of cells of a row that parse as a float
FloatCells(row) == Cardinality({k \in 1..Len(row) : IsFloatText(row[k])})

\* C7: header detection. Under auto: fewer than 2 rows -> headers; n0 = 0
\* and n1 > 0 -> headers; otherwise n0 >= 70% of row 0 -> no headers;
\* otherwise headers iff n0 < n1. Modes yes and no bypass the detection.
C7_HeaderDetectionRules ==
    has_headers # <<>> =>
        LET hh == has_headers[1]
            n0 == FloatCells(all_rows[1])
            n1 == FloatCells(all_rows[2])
        IN /\ header_mode = "yes" => hh
           /\ header_mode = "no" => ~hh
           /\ header_mode \in {None, "auto"} =>
                 /\ Len(all_rows) < 2 => hh
                 /\ Len(all_rows) >= 2 =>
                       /\ (n0 = 0 /\ n1 > 0) => hh
                       /\ (~(n0 = 0 /\ n1 > 0) /\ 10 * n0 >= 7 * Len(all_rows[1]))
                             => ~hh
                       /\ (~(n0 = 0 /\ n1 > 0) /\ 10 * n0 < 7 * Len(all_rows[1]))
                             => (hh <=> n0 < n1)

\* Row 0 is half numeric, row 1 all numeric: the last rule answers headers
C7_Witness ==
    /\ header_mode = "auto"
    /\ has_headers = <<TRUE>>
    /\ Len(all_rows) = 2
    /\ FloatCells(all_rows[1]) = 1
    /\ Len(all_rows[1]) = 2
    /\ FloatCells(all_rows[2]) = 2

(***************************************************************************)
(* Aggregation parser                                                      *)
(***************************************************************************)
\* text has the form name(args): a non-empty name of word characters, '(',
\* non-empty args, and ')' as the last character; k is the place of the '('
HasCallForm(text, k) ==
    /\ k >= 2
    /\ k + 2 <= Len(text)
    /\ \A j \in 1..(k - 1) : text[j] \in WordChars
    /\ text[k] = "("
    /\ text[Len(text)] = ")"

\* C8: parse_aggregation returns (lowercased name, trimmed args) when the
\* trimmed string is name(args) with non-empty args and name, compared
\* case-insensitively, is avg, sum, min, max or count; otherwise it returns
\* (None, the trimmed string). Only the outermost call is unwrapped.
C8_ParseAggregation ==
    agg_result # NotParsed =>
        LET t == Strip(field)
            calls == {k \in 1..Len(t) :
                         HasCallForm(t, k) /\ Lower(SubSeq(t, 1, k - 1)) \in valid_funcs}
        IN /\ \A k \in calls :
                 /\ agg_result.func = Lower(SubSeq(t, 1, k - 1))
                 /\ agg_result.field_name = Strip(SubSeq(t, k + 1, Len(t) - 1))
           /\ calls = {} => agg_result = [func |-> NoValue, field_name |-> t]
           /\ field = <<"a", "v", "g", "(", "x", "(", "x", ")", ")">> =>
                 agg_result = [func |-> <<"a", "v", "g">>,
                               field_name |-> <<"x", "(", "x", ")">>]
           /\ field = <<"x", "(", "x", ")">> =>
                 agg_result = [func |-> NoValue, field_name |-> field]

\* 'Sum( x)' is returned as (sum, x)
C8_Witness ==
    /\ field = <<"S", "u", "m", "(", " ", "x", ")">>
    /\ agg_result = [func |-> <<"s", "u", "m">>, field_name |-> <<"x">>]

(***************************************************************************)
(* Claims about create_heatmap.                                            *)
(***************************************************************************)
\* create_heatmap has returned
HeatmapReturned == heatmap # NoHeatmap

\* Column c has values, and its least value is below its greatest
Spread(c) ==
    /\ ColumnMin(heat_rows, c) # Null
    /\ ColumnMin(heat_rows, c) # ColumnMax(heat_rows, c)

\* The value expression is an aggregate: a function of the field, or COUNT(*)
IsAggregate(vf) == ValueExpr(vf)[1] # <<>>

\* The bin of a column value on a scale: the i with
\* scale[i] <= value < scale[i + 1], the last bin holding the last edge
\* too; a negative number when there is none
BinOf(v, scale) == find_bin_index(Float(v[1]), scale)

\* The rows with non-null x and y that fall into the bins of a cell of the
\* chart (rows are drawn top down: row y_idx shows bin y_bins - 1 - y_idx)
CellRows(cell) ==
    [r \in {q \in Selected(heat_rows) :
               /\ BinOf(q[1], x_scale) = cell.x_idx
               /\ BinOf(q[2], y_scale) = Len(y_scale) - 2 - cell.y_idx}
       |-> CopiesIn(r, heat_rows)]

\* The row has something to contribute: the value expression over the row
\* alone is not NULL
Contributes(r) == Evaluate(ValueExpr(value_field), SetToBag({r})) # {Null}

\* C9, first part: the range query runs first and then exactly one
\* aggregated query
C9_RangeQueryThenOneAggregatedQuery ==
    (HeatmapReturned /\ Spread(1) /\ Spread(2) /\ IsAggregate(value_field)) =>
        queries = <<"range", "aggregate">>

\* C9, second part: the value of every plotted cell is the value expression
\* over exactly the rows that fall into the bins of the cell, and no cell
\* is plotted twice
C9_CellIsAggregateOverItsBins ==
    (/\ HeatmapReturned /\ Spread(1) /\ Spread(2) /\ IsAggregate(value_field)
     /\ heatmap.kind = "chart") =>
        /\ \A cell \in heatmap.grid :
              Evaluate(ValueExpr(value_field), CellRows(cell)) = {<<cell.value>>}
        /\ \A c1, c2 \in heatmap.grid :
              (c1.x_idx = c2.x_idx /\ c1.y_idx = c2.y_idx) => c1 = c2

\* C9, third part: every row with non-null x and y that has something to
\* contribute is among the rows of exactly one plotted cell
C9_EveryRowInExactlyOneCell ==
    (HeatmapReturned /\ Spread(1) /\ Spread(2) /\ IsAggregate(value_field)) =>
        \A r \in Selected(heat_rows) :
            Contributes(r) =>
                /\ heatmap.kind = "chart"
                /\ Cardinality({cell \in heatmap.grid : r \in DOMAIN CellRows(cell)}) = 1

\* C9: for every table whose x and y are numeric with min < max on both
\* axes, create_heatmap runs the range query and then exactly one
\* aggregated query, every plotted cell's value is the value expression
\* computed once over exactly the rows in the cell's bins, and every row
\* with non-null x and y contributes to exactly one cell.
C9_HeatmapAggregatesEveryRowOnce ==
    /\ C9_RangeQueryThenOneAggregatedQuery
    /\ C9_CellIsAggregateOverItsBins
    /\ C9_EveryRowInExactlyOneCell

\* The rows at x = 2 and x = 3 are summed; the scale of 20 steps of 0.05
\* from 2.0 has ended below 3 and the chart has no cell for the rows at 3
C9_RowsAtMaxDropped ==
    /\ heat_rows = SetToBag({<<<<2>>, <<0>>, <<1>>>>}) (+) SetToBag({<<<<3>>, <<10>>, <<2>>>>})
                     (+) SetToBag({<<<<3>>, <<10>>, <<2>>>>})
    /\ value_field = <<"s", "u", "m", "(", "v", ")">>
    /\ Less(x_scale[Len(x_scale)], Float(3))
    /\ heatmap.kind = "chart"
    /\ heatmap.grid = {[x_idx |-> 0, y_idx |-> 9, value |-> ValueDen]}

\* No row of the table has non-null x and y
NoRowSelected == Selected(heat_rows) = {}

\* Every value the aggregated query returned is NULL
EveryValueNull == \A r \in results : r[3] = Null

\* Every row with non-null x and y is outside the bins of a scale
EveryPointExcluded ==
    \A r \in Selected(heat_rows) :
        BinOf(r[1], x_scale) < 0 \/ BinOf(r[2], y_scale) < 0

\* There is no data to plot
NoDataToPlot == NoRowSelected \/ EveryValueNull \/ EveryPointExcluded

\* C10 as stated: create_heatmap returns chart text or null, and null
\* whenever there is no data to plot (no row with non-null x and y, every
\* aggregated value NULL, or every point excluded by binning).
C10_NullWheneverNoData ==
    HeatmapReturned =>
        /\ heatmap.kind \in {"chart", "None"}
        /\ NoDataToPlot => heatmap = NoneReturned

\* The aggregated query returns no row: no row with non-null x and y has a
\* bin that is not NULL on both axes
NoRowBinned ==
    \A r \in Selected(heat_rows) :
        CaseBin(r[1], x_scale) = Null \/ CaseBin(r[2], y_scale) = Null

\* No returned row can be placed: its value is NULL or one of its bins is
\* the -1 of a scale without bins
NoRowPlaced ==
    \A r \in results : r[3] = Null \/ r[1][1] < 0 \/ r[2][1] < 0

\* The aggregated query is rejected by sqlite
QueryFailed == SqlError(ValueExpr(value_field))

\* C10, amended: create_heatmap returns chart text, the message 'No numeric
\* values to plot' or null. It returns null exactly when the aggregated
\* query returns no row or raises; when the query returns rows but none of
\* them can be placed (every value NULL, or a scale without bins) it returns
\* the message, which is not null; otherwise it returns a chart with at
\* least one cell.
C10_NullOnlyWhenQueryReturnsNoRow ==
    HeatmapReturned =>
        /\ (heatmap = NoneReturned) <=> (QueryFailed \/ NoRowBinned)
        /\ (heatmap = Message("No numeric values to plot"))
               <=> (~QueryFailed /\ ~NoRowBinned /\ NoRowPlaced)
        /\ (heatmap.kind = "chart" /\ heatmap.grid # {})
               <=> (~QueryFailed /\ ~NoRowBinned /\ ~NoRowPlaced)

\* Two rows with x and y spread and no value: MAX(v) is NULL in both
\* groups and the message is returned
C10_Witness ==
    /\ heat_rows = SetToBag({<<<<2>>, <<0>>, Null>>, <<<<3>>, <<10>>, Null>>})
    /\ value_field = <<"M", "a", "x", "(", "v", ")">>
    /\ results # {}
    /\ EveryValueNull
    /\ heatmap = Message("No numeric values to plot")

(***************************************************************************)
(* Claims about the comparison charts.                                     *)
(***************************************************************************)
\* A comparison function has returned
Compared == cmp_function # "none"

\* The versions the versions query finds
Discovered == VersionQuery(cmp_rows)

\* The data query was executed and sqlite rejected it
DataQueryFailed ==
    /\ cmp_queries = <<"versions", "data">>
    /\ SqlError(CmpValueExpr(cmp_value_field))

\* create_multi_comparison was given an override that is no version
OverrideNotFound ==
    /\ cmp_function = "create_multi_comparison"
    /\ Len(Discovered) >= 2
    /\ baseline # <<>>
    /\ NotInVersions(baseline, Discovered)

\* The message of the override could not be built: a data error
JoinFailed == OverrideNotFound /\ JoinRaises(Discovered)

\* C11: create_heatmap and create_multi_comparison never let an exception
\* out: whatever the table, the value field, the display mode and the
\* baseline, a call ends with a returned value, and an SQL error or a data
\* error raised while querying or computing makes it return None.
C11_ErrorsReturnNone ==
    /\ heatmap.kind # "raised"
    /\ comparison.kind # "raised"
    /\ (HeatmapReturned /\ QueryFailed) => heatmap = NoneReturned
    /\ (Compared /\ (DataQueryFailed \/ JoinFailed)) => comparison = NoneReturned

\* The data query of create_multi_comparison names a column the table does
\* not have, in a table of two versions, and None is returned
C11_Witness ==
    /\ cmp_function = "create_multi_comparison"
    /\ Len(Discovered) = 2
    /\ cmp_value_field = <<"w">>
    /\ DataQueryFailed
    /\ comparison = NoneReturned

\* create_multi_comparison has chosen its baseline and comparison versions
VersionsChosen ==
    /\ cmp_function = "create_multi_comparison"
    /\ baseline_version # <<>>

\* The baseline followed by the comparison versions
AllVersions == baseline_version \o comparison_versions

\* The positions of a version among the baseline and the comparison versions
PositionsOf(version) == {k \in 1..Len(AllVersions) : AllVersions[k] = version}

C13_UnknownOverrideReturnsErrorString ==
    OverrideNotFound =>
        /\ comparison.kind = "message"
        /\ comparison.text
              = "Baseline version '{baseline}' not found. Available versions: {', '.join(versions)}"
        /\ comparison.baseline = baseline
        /\ cmp_queries = <<"versions">>

\* What holds: the error string is returned when every discovered version
\* is a text, and None is returned as soon as one of them is an integer;
\* in both cases the aggregation query is not executed
C13_ErrorStringForTextVersionsOnly ==
    OverrideNotFound =>
        /\ cmp_queries = <<"versions">>
        /\ IF JoinRaises(Discovered)
           THEN comparison = NoneReturned
           ELSE comparison = BaselineNotFound(baseline, Discovered)

\* The versions 7 and 8 and the override 'nope': None is returned
C13_NumericVersionsGiveNone ==
    /\ OverrideNotFound
    /\ Discovered = <<Integer(7), Integer(8)>>
    /\ baseline = <<"n", "o", "p", "e">>
    /\ comparison = NoneReturned

\* The versions 'baseline' and 'candidate' and the override 'nope': the
\* error string lists 'baseline, candidate'
C13_TextVersionsGiveErrorString ==
    /\ OverrideNotFound
    /\ baseline = <<"n", "o", "p", "e">>
    /\ comparison.kind = "message"
    /\ comparison.versions
          = <<"b", "a", "s", "e", "l", "i", "n", "e", ",", " ",
              "c", "a", "n", "d", "i", "d", "a", "t", "e">>

\* create_multi_comparison has returned a chart
ChartReturned ==
    /\ cmp_function = "create_multi_comparison"
    /\ comparison.kind = "chart"

\* The rows of the table of a metric and a version
RowsOf(metric, version) ==
    {r \in BagToSet(cmp_rows) : r[2] = metric /\ r[1] = version}

\* The value of a metric for a version: the count of its rows or the sum of
\* their values, and 0 when the table has no such row
RECURSIVE Total(_, _)
Total(S, counting) ==
    IF S = {} THEN 0
    ELSE LET r == CHOOSE q \in S : TRUE
         IN CopiesIn(r, cmp_rows) * (IF counting THEN 1 ELSE r[3]) + Total(S \ {r}, counting)

ValueFor(metric, version) == Total(RowsOf(metric, version), cmp_value_field = <<>>)

\* The metric of a row of the chart: row j is the j-th metric in sorted order
MetricOfRow(j) == OrderBy({r[2] : r \in {q \in BagToSet(cmp_rows) : q[2] # SqlNull}})[j]

\* The pieces a display mode shows: the value, the signed difference, the
\* signed percentage
Shows(mode) ==
    IF mode = "FULL" THEN <<"value", "diff", "(pct)">>
    ELSE IF mode \in {"COMPACT", "PERCENT"} THEN <<"pct">>
    ELSE IF mode = "VALUE" THEN <<"value">>
    ELSE IF mode = "DIFF" THEN <<"diff">>
    ELSE IF mode = "VALUE_DIFF" THEN <<"value", "(diff)">>
    ELSE <<"value", "(pct)">>

\* A piece, for the values of the comparison version and of the baseline
Piece(name, comp, base) ==
    IF name = "value" THEN FormatG(comp)
    ELSE IF name = "diff" THEN FormatSigned(comp - base)
    ELSE IF name = "(diff)" THEN <<"(">> \o FormatSigned(comp - base) \o <<")">>
    ELSE IF name = "pct" THEN FormatPercent(comp - base, base)
    ELSE <<"(">> \o FormatPercent(comp - base, base) \o <<")">>

\* The pieces, separated by single spaces
RECURSIVE Spaced(_, _, _)
Spaced(names, comp, base) ==
    IF Len(names) = 1 THEN Piece(names[1], comp, base)
    ELSE Piece(names[1], comp, base) \o <<" ">> \o Spaced(Tail(names), comp, base)

\* The display mode named by the display_mode argument, full for a string
\* that names none
ModeNamed == IF Lower(display_mode) \in DOMAIN mode_map THEN mode_map[Lower(display_mode)] ELSE "FULL"

\* C14: in every row of the chart, the baseline column is the metric's own
\* value for the baseline version, and the cell of a comparison version is
\* formatted from the metric's own values: diff = comparison - baseline,
\* pct = diff / baseline * 100, an absent (metric, version) pair counting
\* as 0; full shows 'value diff (pct%)', compact and percent 'pct%', value
\* 'value', diff 'diff', value-diff 'value (diff)', value-percent
\* 'value (pct%)', every diff and pct with its sign. The percentage is
\* stated for a baseline that is not 0.
C14_CellsFormattedPerDisplayMode ==
    ChartReturned =>
        /\ Len(comparison.rows)
              = Cardinality({r[2] : r \in {q \in BagToSet(cmp_rows) : q[2] # SqlNull}})
        /\ \A j \in 1..Len(comparison.rows) :
              LET base == ValueFor(MetricOfRow(j), baseline_version[1])
              IN /\ comparison.rows[j][1] = Str(MetricOfRow(j))
                 /\ comparison.rows[j][2] = FormatG(base)
                 /\ Len(comparison.rows[j]) = 2 + Len(comparison_versions)
                 /\ \A k \in 1..Len(comparison_versions) :
                       LET comp == ValueFor(MetricOfRow(j), comparison_versions[k])
                       IN (base # 0 \/ \A n \in 1..Len(Shows(ModeNamed)) :
                                          Shows(ModeNamed)[n] \notin {"pct", "(pct)"})
                             => comparison.rows[j][2 + k] = Spaced(Shows(ModeNamed), comp, base)

\* The claim's example: a baseline of 10 and a comparison value of 15 under
\* value-percent give '15 (+50.0%)', in a chart of two metrics whose other
\* metric has no row of the comparison version
C14_Witness ==
    /\ ChartReturned
    /\ display_mode = <<"v", "a", "l", "u", "e", "-", "p", "e", "r", "c", "e", "n", "t">>
    /\ cmp_value_field = <<"s", "u", "m", "(", "v", ")">>
    /\ Len(comparison.rows) = 2
    /\ comparison.rows[1] = <<<<"m">>, <<"1", "0">>,
                              <<"1", "5", " ", "(", "+", "5", "0", ".", "0", "%", ")">>>>
    /\ comparison.rows[2] = <<<<"n">>, <<"1", "0">>,
                              <<"0", " ", "(", "-", "1", "0", "0", ".", "0", "%", ")">>>>

\* The display modes whose cells show a percentage
ShowsPercent(mode) == mode \in {"FULL", "COMPACT", "PERCENT", "VALUE_PERCENT"}

\* The percentage a cell shows: what stands between its parentheses, or the
\* whole cell when it has none
PercentShown(cell) ==
    IF \E k \in 1..Len(cell) : cell[k] = "("
    THEN SubSeq(cell, (CHOOSE k \in 1..Len(cell) : cell[k] = "(") + 1, Len(cell) - 1)
    ELSE cell

\* The cells of the chart whose baseline value is 0, as <<row, column>>,
\* with a difference that is 0 or is not
ZeroBaselineCells(zero_diff) ==
    {c \in (1..Len(comparison.rows)) \X (1..Len(comparison_versions)) :
        /\ ValueFor(MetricOfRow(c[1]), baseline_version[1]) = 0
        /\ (ValueFor(MetricOfRow(c[1]), comparison_versions[c[2]]) = 0) = zero_diff}

\* C15 as stated: in every cell that shows a percentage, the percentage is
\* 'inf%' when the baseline is 0 and the difference is not, and '0' when
\* the baseline and the difference are both 0.
C15_ZeroOverZeroShownAsZero ==
    (ChartReturned /\ ShowsPercent(ModeNamed)) =>
        /\ \A c \in ZeroBaselineCells(FALSE) :
              PercentShown(comparison.rows[c[1]][2 + c[2]]) = InfPercent
        /\ \A c \in ZeroBaselineCells(TRUE) :
              PercentShown(comparison.rows[c[1]][2 + c[2]]) = <<"0">>

\* C15, amended: in every cell that shows a percentage, the percentage is
\* 'inf%' when the baseline is 0 and the difference is not, and '+0.0%'
\* when the baseline and the difference are both 0; no division by zero
\* occurs: a table with a metric and two versions whose data query succeeds
\* gets its chart.
C15_ZeroOverZeroShownAsPlusZeroPercent ==
    /\ (ChartReturned /\ ShowsPercent(ModeNamed)) =>
          /\ \A c \in ZeroBaselineCells(FALSE) :
                PercentShown(comparison.rows[c[1]][2 + c[2]]) = InfPercent
          /\ \A c \in ZeroBaselineCells(TRUE) :
                PercentShown(comparison.rows[c[1]][2 + c[2]]) = <<"+", "0", ".", "0", "%">>
    /\ (VersionsChosen /\ ~DataQueryFailed
           /\ \E r \in BagToSet(cmp_rows) : r[2] # SqlNull)
          => comparison.kind = "chart"

\* A chart in percent mode with a cell of 0 over 0 and a cell of a
\* difference over 0
C15_Witness ==
    /\ ChartReturned
    /\ ModeNamed = "PERCENT"
    /\ \E c \in ZeroBaselineCells(TRUE) :
          comparison.rows[c[1]][2 + c[2]] = <<"+", "0", ".", "0", "%">>
    /\ \E c \in ZeroBaselineCells(FALSE) :
          comparison.rows[c[1]][2 + c[2]] = InfPercent

\* Every version of the chart, the baseline included, has an identifier of
\* at most eight characters
AllShort == \A k \in 1..Len(AllVersions) : Len(Str(AllVersions[k])) <= 8

\* The letters A, B, C, ... of the columns
ColumnLetters == [k \in 1..Len(AllVersions) |-> <<UpperLetters[k]>>]

\* C16: the version identifiers are the headers, verbatim, and the chart
\* has no legend exactly when every participating version identifier has
\* at most 8 characters; otherwise the baseline is headed A and the
\* comparison versions B, C, ... in their order, and a legend that maps the
\* letters to the identifiers, followed by an empty line, precedes the
\* table.
C16_OriginalNamesOrLetters ==
    ChartReturned =>
        /\ AllShort <=> comparison.legend = <<>>
        /\ AllShort <=> comparison.header = [k \in 1..Len(AllVersions) |-> Str(AllVersions[k])]
        /\ ~AllShort =>
              /\ comparison.header = ColumnLetters
              /\ Len(comparison.legend) = Len(AllVersions) + 1
              /\ comparison.legend[1]
                    = <<"B", "a", "s", "e", "l", "i", "n", "e", " ", "(", "A", ")", ":", " ">>
                      \o Str(AllVersions[1])
              /\ \A k \in 2..Len(AllVersions) :
                    comparison.legend[k] = ColumnLetters[k] \o <<":", " ">> \o Str(AllVersions[k])
              /\ comparison.legend[Len(AllVersions) + 1] = <<>>

\* The versions 7, 'baseline' and 'candidate', of one, eight and nine
\* characters: letters and a legend
C16_Witness ==
    /\ ChartReturned
    /\ Discovered = <<Integer(7), Text(<<"b", "a", "s", "e", "l", "i", "n", "e">>),
                      Text(<<"c", "a", "n", "d", "i", "d", "a", "t", "e">>)>>
    /\ baseline = <<>>
    /\ comparison.header = <<<<"A">>, <<"B">>, <<"C">>>>
    /\ comparison.legend[3] = <<"C", ":", " ", "c", "a", "n", "d", "i", "d", "a", "t", "e">>

\* The versions 7 and 'baseline', of one and eight characters: the
\* identifiers are the headers
C16_VerbatimAtEightCharacters ==
    /\ ChartReturned
    /\ comparison.legend = <<>>
    /\ comparison.header = <<<<"7">>, <<"b", "a", "s", "e", "l", "i", "n", "e">>>>

\* The distinct non-null values of the versions column
NonNullVersions == {r[1] : r \in BagToSet(cmp_rows)} \ {SqlNull}

\* C17: create_multi_comparison and the legacy create_comparison return
\* 'No versions found' when the table has no non-null version and 'Need at
\* least 2 versions to compare' when it has exactly one; in both cases the
\* call returns after the versions query and before any aggregation query
\* is executed, and with two versions or more neither message is returned.
C17_TooFewVersions ==
    Compared =>
        /\ Cardinality(NonNullVersions) = 0
              <=> comparison = Message("No versions found")
        /\ Cardinality(NonNullVersions) = 1
              <=> comparison = Message("Need at least 2 versions to compare")
        /\ Cardinality(NonNullVersions) < 2 => cmp_queries = <<"versions">>

\* The legacy function on a table of three rows of one version
C17_Witness ==
    /\ cmp_function = "create_comparison"
    /\ BagCardinality(cmp_rows) = 3
    /\ Cardinality(NonNullVersions) = 1
    /\ comparison = Message("Need at least 2 versions to compare")
    /\ cmp_queries = <<"versions">>

\* create_multi_comparison on a table whose only row has no version
C17_NoVersionsFound ==
    /\ cmp_function = "create_multi_comparison"
    /\ BagCardinality(cmp_rows) = 1
    /\ comparison = Message("No versions found")
    /\ cmp_queries = <<"versions">>

\* The display_mode argument names no display mode, in any letter case
InvalidMode == Lower(display_mode) \notin DOMAIN mode_map

\* C18: a display_mode string that is none of full, compact, value, diff,
\* percent, value-diff and value-percent, in any letter case, never makes
\* create_multi_comparison fail: the call returns exactly what it returns
\* for the same table, value field and baseline with 'full'.
C18_InvalidModeRendersAsFull ==
    (cmp_function = "create_multi_comparison" /\ InvalidMode) =>
        /\ comparison.kind # "raised"
        /\ comparison = create_multi_comparison(cmp_rows, cmp_value_field,
                                                <<"f", "u", "l", "l">>, baseline).returned

\* The mode 'bogus' on a table with the values 10 and 15: the cell is the
\* cell of full
C18_Witness ==
    /\ ChartReturned
    /\ display_mode = <<"b", "o", "g", "u", "s">>
    /\ cmp_value_field = <<"s", "u", "m", "(", "v", ")">>
    /\ Len(comparison.rows) = 1
    /\ comparison.rows[1][3]
          = <<"1", "5", " ", "+", "5", " ", "(", "+", "5", "0", ".", "0", "%", ")">>

(***************************************************************************)
(* Claims about parse_chart_command.                                       *)
(***************************************************************************)
\* The state is the one the call parse_chart_command(args) ends in
DirectCall == chart_command = parse_chart_command(args)

\* C19 as stated: parse_chart_command routes the deprecated names
\* comparison and cmp, like mcmp, to multi-comparison: with at least two
\* fields it returns the chart type 'multi-comparison', with fewer it
\* raises 'Multi-comparison requires at least versions_field and
\* metrics_field'; hm is returned as heatmap.
C19_DeprecatedNamesRouteToMultiComparison ==
    (chart_command # NotParsedCommand /\ DirectCall /\ args # <<>>) =>
        /\ args[1] \in {"comparison", "cmp", "mcmp"} =>
              IF Len(args) >= 3
              THEN /\ chart_command.kind = "returned"
                   /\ chart_command.chart_type = "multi-comparison"
              ELSE /\ chart_command.kind = "raised"
                   /\ chart_command.message
                         = "Multi-comparison requires at least versions_field and metrics_field"
        /\ (args[1] = "hm" /\ Len(args) >= 3) =>
              /\ chart_command.kind = "returned"
              /\ chart_command.chart_type = "heatmap"

\* What holds of parse_chart_command: mcmp is routed to multi-comparison
\* and hm to heatmap, while comparison and cmp give the chart type
\* 'comparison' and the error 'Comparison requires ...'
C19_DeprecatedNamesGiveComparison ==
    (chart_command # NotParsedCommand /\ DirectCall /\ args # <<>>) =>
        /\ args[1] \in {"comparison", "cmp"} =>
              IF Len(args) >= 3
              THEN /\ chart_command.kind = "returned"
                   /\ chart_command.chart_type = "comparison"
              ELSE /\ chart_command.kind = "raised"
                   /\ chart_command.message
                         = "Comparison requires at least versions_field and metrics_field"
        /\ args[1] = "mcmp" =>
              IF Len(args) >= 3
              THEN /\ chart_command.kind = "returned"
                   /\ chart_command.chart_type = "multi-comparison"
              ELSE /\ chart_command.kind = "raised"
                   /\ chart_command.message
                         = "Multi-comparison requires at least versions_field and metrics_field"
        /\ (args[1] = "hm" /\ Len(args) >= 3) =>
              /\ chart_command.kind = "returned"
              /\ chart_command.chart_type = "heatmap"

\* parse_chart_command(["cmp", "versions", "versions", "avg(latency)"])
\* returns the chart type 'comparison'
C19_CmpGivesComparison ==
    /\ args = <<"cmp", "versions", "versions", "avg(latency)">>
    /\ chart_command
          = ParsedAs("comparison",
                     <<<<"versions_field", "versions">>, <<"metrics_field", "versions">>,
                       <<"value_field", "avg(latency)">>>>)

(***************************************************************************)
(* Claims about the call that parse_aggregation unwraps.                   *)
(***************************************************************************)
\* The number of '(' less the number of ')' in text[from..to]
RECURSIVE OpenCount(_, _, _)
OpenCount(text, from, to) ==
    IF to < from THEN 0
    ELSE OpenCount(text, from, to - 1)
         + (IF text[to] = "(" THEN 1 ELSE IF text[to] = ")" THEN -1 ELSE 0)

\* The '(' at place k of text is matched by the last character of text
MatchedByFinalParen(text, k) ==
    /\ OpenCount(text, k, Len(text)) = 0
    /\ \A j \in k..(Len(text) - 1) : OpenCount(text, k, j) > 0

\* C20 as stated: parse_aggregation returns an aggregation function only
\* when the trimmed input is a single top-level call that wraps the entire
\* string, the '(' after the name being matched by the final ')'; an
\* expression of several calls such as sum(a) + sum(b) is returned as
\* (None, the trimmed input).
C20_OnlyASingleWrappingCall ==
    agg_result # NotParsed =>
        LET t == Strip(field)
            wrapping == {k \in 1..Len(t) : HasCallForm(t, k) /\ MatchedByFinalParen(t, k)}
        IN /\ agg_result.func # NoValue => wrapping # {}
           /\ wrapping = {} => agg_result = [func |-> NoValue, field_name |-> t]

\* 'avg(x)+avg(x)' is returned as (avg, 'x)+avg(x')
C20_SeveralCallsUnwrapped ==
    /\ field = <<"a", "v", "g", "(", "x", ")", "+", "a", "v", "g", "(", "x", ")">>
    /\ agg_result = [func |-> <<"a", "v", "g">>,
                     field_name |-> <<"x", ")", "+", "a", "v", "g", "(", "x">>]

(***************************************************************************)
(* C21: the scale create_numeric_scale returns                             *)
(***************************************************************************)
\* create_numeric_scale has returned
ScaleReturned == numeric_scale # <<>>

\* Every edge of the scale is below the next one
Increasing(scale) == \A k \in 1..(Len(scale) - 1) : Less(scale[k], scale[k + 1])

\* C21 as stated: for every min <= max and target_steps >= 1 the scale
\* create_numeric_scale returns is strictly increasing, its first edge is
\* at most min and its last edge is at least max, also when min = max # 0,
\* for negative values as well as positive ones.
C21_ScaleIncreasingAndCoversRange ==
    ScaleReturned =>
        /\ Increasing(numeric_scale)
        /\ AtMost(numeric_scale[1], Float(scale_min[1]))
        /\ AtMost(Float(scale_max[1]), numeric_scale[Len(numeric_scale)])

\* create_numeric_scale(-2, -2) returns [-1.8, -2, -2.2]: decreasing, from
\* above the value to below it
C21_NegativeValueScaleDecreases ==
    /\ scale_min = <<-2>>
    /\ scale_max = <<-2>>
    /\ numeric_scale = << <<-1800, 0>>, <<-2000, 0>>, <<-2200, 0>> >>

\* create_numeric_scale(2, 3, 20) ends just below 3
C21_LastEdgeBelowMax ==
    /\ scale_min = <<2>>
    /\ scale_max = <<3>>
    /\ scale_steps = 20
    /\ numeric_scale # <<>>
    /\ numeric_scale[Len(numeric_scale)] = <<3000, -1>>

(***************************************************************************)
(* C22: the bin find_bin_index returns                                     *)
(***************************************************************************)
\* find_bin_index has returned
BinFound == bin_index # <<>>

\* The bins of the scale, counted from 0, that hold the value: edge <= value
\* < next edge
BinsHolding(value, scale) ==
    {k \in 0..(Len(scale) - 2) : AtMost(scale[k + 1], value) /\ Less(value, scale[k + 2])}

\* C22: for an increasing scale of N >= 2 edges, find_bin_index returns the
\* only i with scale[i] <= value < scale[i+1] when there is one, N-2 when
\* the value equals the last edge, and -1 when the value is below the first
\* edge or above the last; the result is -1 or an index in 0..N-2.
C22_BinIndexOfIncreasingScale ==
    (BinFound /\ Len(numeric_scale) >= 2 /\ Increasing(numeric_scale)) =>
        LET N == Len(numeric_scale)
            holding == BinsHolding(bin_value, numeric_scale)
        IN /\ Cardinality(holding) <= 1
           /\ holding # {} => holding = {bin_index[1]}
           /\ bin_value = numeric_scale[N] => bin_index[1] = N - 2
           /\ Less(bin_value, numeric_scale[1]) => bin_index[1] = -1
           /\ Less(numeric_scale[N], bin_value) => bin_index[1] = -1
           /\ bin_index[1] \in {-1} \cup 0..(N - 2)

\* The value looked up is the last edge of an increasing scale of more than
\* two edges, and the last bin is returned
C22_Witness ==
    /\ BinFound
    /\ Len(numeric_scale) > 2
    /\ Increasing(numeric_scale)
    /\ bin_value = numeric_scale[Len(numeric_scale)]
    /\ bin_index = <<Len(numeric_scale) - 2>>

(***************************************************************************)
(* C25: values inside the range the scale was made for                     *)
(***************************************************************************)
\* C25 as stated: for every min <= max, target_steps >= 1 and value v with
\* min <= v <= max, find_bin_index(v, create_numeric_scale(min, max,
\* target_steps)) is an index between 0 and len(scale) - 2 and never -1,
\* also when min = max.
C25_ValueInRangeHasBin ==
    (/\ BinFound
     /\ AtMost(Float(scale_min[1]), bin_value)
     /\ AtMost(bin_value, Float(scale_max[1]))) =>
        bin_index[1] \in 0..(Len(numeric_scale) - 2)

\* find_bin_index(0, create_numeric_scale(0, 0)) is find_bin_index(0, [0]),
\* which returns len(scale) - 2 = -1
C25_AllZeroAxisExcluded ==
    /\ scale_min = <<0>>
    /\ scale_max = <<0>>
    /\ numeric_scale = << <<0, 0>> >>
    /\ bin_value = <<0, 0>>
    /\ bin_index = <<-1>>

\* find_bin_index(-2, create_numeric_scale(-2, -2)) returns -1
C25_NegativeSingleValueExcluded ==
    /\ scale_min = <<-2>>
    /\ scale_max = <<-2>>
    /\ bin_value = <<-2000, 0>>
    /\ bin_index = <<-1>>

\* find_bin_index(3, create_numeric_scale(2, 3, 20)) returns -1: the last
\* edge is just below 3
C25_MaxAboveLastEdgeExcluded ==
    /\ scale_min = <<2>>
    /\ scale_max = <<3>>
    /\ scale_steps = 20
    /\ bin_value = <<3000, 0>>
    /\ bin_index = <<-1>>

(***************************************************************************)
(* C23: the CASE expression of build_axis_query and find_bin_index         *)
(***************************************************************************)
\* The scale of the axis of column c (1: x, 2: y)
ScaleOf(c) == IF c = 1 THEN x_scale ELSE y_scale

\* The axis of column c, as build_axis_query returns it
AxisOf(c) == [is_numeric |-> ScaleOf(c) # <<>>, scale |-> ScaleOf(c)]

\* The CASE expression gives the value the bin find_bin_index gives it, and
\* NULL exactly where find_bin_index gives -1
CaseAgreesWithFindBinIndex(c) ==
    \A r \in Selected(heat_rows) :
        AxisExpr(AxisOf(c), r[c]) =
            IF BinOf(r[c], ScaleOf(c)) = -1 THEN Null ELSE <<BinOf(r[c], ScaleOf(c))>>

\* The edge a bin index is mapped back to is found in the same bin
EdgeFoundInItsBin(c) ==
    \A r \in results :
        r[c] # Null => find_bin_index(PyIndex(ScaleOf(c), r[c][1]), ScaleOf(c)) = r[c][1]

\* Every row of the aggregated query that has a value is a cell of the
\* chart, and no two of them are the same cell
NoCellDroppedOrMerged ==
    LET valued == {r \in results : r[3] # Null}
    IN valued # {} =>
          /\ heatmap.kind = "chart"
          /\ Cardinality(heatmap.grid) = Cardinality(valued)

\* C23 as stated: when min and max of an axis are numeric, the CASE
\* expression assigns every value the bin index find_bin_index returns for
\* the scale, and NULL exactly where find_bin_index returns -1; the edge an
\* assigned index is mapped back to is binned to the same index, so that
\* rendering neither drops nor merges an aggregated cell. When min or max
\* is not numeric the field is used unchanged and there is no scale.
C23_CaseExpressionBinsAsFindBinIndex ==
    (HeatmapReturned /\ ~QueryFailed) =>
        /\ \A c \in {1, 2} :
              IF ColumnMin(heat_rows, c) # Null /\ ColumnMax(heat_rows, c) # Null
              THEN /\ ScaleOf(c) # <<>>
                   /\ CaseAgreesWithFindBinIndex(c)
                   /\ EdgeFoundInItsBin(c)
              ELSE /\ ScaleOf(c) = <<>>
                   /\ \A r \in BagToSet(heat_rows) : AxisExpr(AxisOf(c), r[c]) = r[c]
        /\ NoCellDroppedOrMerged

\* Every y of the table is 0: the scale is [0], the CASE expression gives
\* the row the bin -1 and not NULL, the query returns a cell with a value
\* and create_heatmap returns 'No numeric values to plot'
C23_CellOfAllZeroAxisDropped ==
    /\ heat_rows = SetToBag({<<<<2>>, <<0>>, <<1>>>>}) (+) SetToBag({<<<<3>>, <<0>>, <<2>>>>})
    /\ value_field = <<"s", "u", "m", "(", "v", ")">>
    /\ y_scale = << <<0, 0>> >>
    /\ \E r \in results : r[2] = <<-1>> /\ r[3] # Null
    /\ heatmap = Message("No numeric values to plot")

\* What holds: the same, for the tables whose numeric axes have a scale of
\* more than one edge
C23_HoldsOffSingleEdgeScales ==
    (Len(x_scale) # 1 /\ Len(y_scale) # 1) => C23_CaseExpressionBinsAsFindBinIndex

(***************************************************************************)
(* C24: the character of a plotted cell                                    *)
(***************************************************************************)
\* create_heatmap_without_aggregation has returned a chart
Plotted == plot.kind = "chart"

\* The values of the plotted cells
PlottedValues == {cell.value : cell \in plot.grid}

\* 0 when every plotted value is at least 0, the least plotted value
\* otherwise
EffectiveMin == IF Least(PlottedValues) >= 0 THEN 0 ELSE Least(PlottedValues)

\* The index of the character the cell is drawn with
GlyphOf(cell) ==
    (CHOOSE d \in plot.drawn : d.x_idx = cell.x_idx /\ d.y_idx = cell.y_idx).idx

\* n, clamped to 0..4
Clamped(n) == IF n < 0 THEN 0 ELSE IF n > 4 THEN 4 ELSE n

\* C24 as stated: the character index of a plotted cell with value v is
\* round((v - effectiveMin) / (max - effectiveMin) * 4) clamped to 0..4
\* when the maximum differs from the effective minimum, and the middle
\* character when they are equal.
C24_GlyphIndexRounded ==
    Plotted =>
        \A cell \in plot.grid :
            GlyphOf(cell) =
                IF Greatest(PlottedValues) = EffectiveMin THEN 2
                ELSE Clamped(RoundHalfEven((cell.value - EffectiveMin) * 4,
                                           Greatest(PlottedValues) - EffectiveMin))

\* C24, amended: the index is the whole part of
\* (v - effectiveMin) / (max - effectiveMin) * 4, not its rounding
C24_GlyphIndexTruncated ==
    Plotted =>
        /\ plot.min_val = EffectiveMin
        /\ plot.max_val = Greatest(PlottedValues)
        /\ \A cell \in plot.grid :
              /\ \E d \in plot.drawn : d.x_idx = cell.x_idx /\ d.y_idx = cell.y_idx
              /\ GlyphOf(cell) =
                    IF Greatest(PlottedValues) = EffectiveMin THEN 2
                    ELSE Clamped(((cell.value - EffectiveMin) * 4)
                                 \div (Greatest(PlottedValues) - EffectiveMin))

\* The cells hold -1, 1 and 2: the least value is negative and is the
\* effective minimum, and the cell of 1, at 2/3 of the range, is drawn with
\* the character 2 where rounding gives 3
C24_Witness ==
    /\ Plotted
    /\ PlottedValues = {-1, 1, 2}
    /\ plot.min_val = -1
    /\ \E cell \in plot.grid : cell.value = 1 /\ GlyphOf(cell) = 2

(***************************************************************************)
(* C28: the space character                                                *)
(***************************************************************************)
\* C28 as stated: a cell that holds a value is drawn with one of the four
\* characters that are not the space (index 0), so that the space marks
\* the absent cells only.
C28_SpaceMarksAbsentCellsOnly ==
    Plotted => \A cell \in plot.grid : GlyphOf(cell) # 0

\* The cells hold 1 and 5: the cell of 1, at a fifth of the range from 0,
\* is drawn with the space
C28_ValuedCellDrawnAsSpace ==
    /\ Plotted
    /\ PlottedValues = {1, 5}
    /\ \E cell \in plot.grid : cell.value = 1 /\ GlyphOf(cell) = 0

(***************************************************************************)
(* C29: the legend                                                         *)
(***************************************************************************)
\* The value, in the fifths the legend is counted in, lies in the interval
InLegendPart(value, part) ==
    /\ part.lower <= LenChars * value
    /\ \/ LenChars * value < part.upper
       \/ part.closed /\ LenChars * value = part.upper

\* The intervals of the legend run from the effective minimum to the
\* maximum, each starting where the one before ends, the last one closed
LegendCoversRange ==
    /\ Len(plot.legend) = LenChars
    /\ plot.legend[1].lower = LenChars * EffectiveMin
    /\ plot.legend[LenChars].upper = LenChars * Greatest(PlottedValues)
    /\ \A k \in 1..LenChars :
          /\ plot.legend[k].lower < plot.legend[k].upper
          /\ plot.legend[k].closed <=> k = LenChars
          /\ k < LenChars => plot.legend[k].upper = plot.legend[k + 1].lower

\* C29 as stated: in a heatmap whose plotted values are not all equal, the
\* value of every plotted cell lies inside the legend interval of the
\* character that draws the cell (half-open, the top one closed), and the
\* intervals cover the range from the effective minimum to the maximum
\* without gap or overlap.
C29_ValueInsideLegendIntervalOfItsGlyph ==
    (Plotted /\ Cardinality(PlottedValues) > 1) =>
        /\ LegendCoversRange
        /\ \A cell \in plot.grid : InLegendPart(cell.value, plot.legend[GlyphOf(cell) + 1])

\* The cells hold 2 and 3: the cell of 2 is drawn with the character 2,
\* whose interval in the legend is [1.2, 1.8)
C29_ValueOutsideIntervalOfItsGlyph ==
    /\ Plotted
    /\ PlottedValues = {2, 3}
    /\ \E cell \in plot.grid : cell.value = 2 /\ GlyphOf(cell) = 2
    /\ plot.legend[3] = [lower |-> 6, upper |-> 9, closed |-> FALSE]

\* What holds of the legend: its intervals cover the range without gap or
\* overlap
C29_LegendCoversRange ==
    (Plotted /\ Cardinality(PlottedValues) > 1) => LegendCoversRange

(***************************************************************************)
(* C26: a ')' without a '('                                                *)
(***************************************************************************)
\* The number of parentheses open just before position k is read, a ')'
\* that closes nothing being left out of the count
RECURSIVE OpenParensAt(_, _)
OpenParensAt(s, k) ==
    IF k <= 1 THEN 0
    ELSE LET before == OpenParensAt(s, k - 1)
         IN IF OpenQuoteAt(s, k) # None THEN before
            ELSE IF s[k - 1] = "(" THEN before + 1
            ELSE IF s[k - 1] = ")" /\ before > 0 THEN before - 1
            ELSE before

\* The commas outside every pair of parentheses and every quote
CommasOutsidePairs(s) ==
    {k \in 1..Len(s) : s[k] = "," /\ OpenParensAt(s, k) = 0 /\ OpenQuoteAt(s, k) = None}

\* C26 as stated: at every step of the scan the parenthesis depth is at
\* least 0, and a ')' without a matching '(' does not keep a later comma
\* outside every parenthesis pair and every quote from being a split point
\* ('a), b' is split into two segments).
C26_DepthNeverNegative ==
    /\ paren_depth >= 0
    /\ split_pc = "scan" =>
          Len(expressions) = Cardinality({k \in CommasOutsidePairs(expr_string) : k <= i})

\* split_expressions('a),a') returns ['a),a']: the depth is -1 from the
\* ')' on and the comma is not a split point
C26_CommaAfterUnmatchedParenKept ==
    /\ expr_string = <<"a", ")", ",", "a">>
    /\ split_pc = "done"
    /\ paren_depth = -1
    /\ expressions = <<<<"a", ")", ",", "a">>>>

\* What holds: the depth is the number of '(' less the number of ')' read
\* outside quotes, whatever its sign, and the split points are the commas
\* read at depth 0; for the inputs that have no ')' without a '(' these
\* are the commas outside every pair
C26_HoldsWhenParensMatch ==
    (\A k \in 1..(Len(expr_string) + 1) : DepthAt(expr_string, k) >= 0) =>
        C26_DepthNeverNegative

(***************************************************************************)
(* C27: splitting the joined segments again                                *)
(***************************************************************************)
\* ','.join(segments)
RECURSIVE JoinedWithCommas(_)
JoinedWithCommas(segments) ==
    IF segments = <<>> THEN <<>>
    ELSE IF Len(segments) = 1 THEN segments[1]
    ELSE segments[1] \o <<",">> \o JoinedWithCommas(Tail(segments))

\* The segments that splitting the joined result gives
SplitAgain == split_expressions(JoinedWithCommas(expressions))

\* C27 as stated: for every input, joining the segments split_expressions
\* returns with commas and splitting the joined string again returns the
\* same list of segments.
C27_StableUnderRejoining ==
    split_pc = "done" => SplitAgain = expressions

\* C27, amended: splitting again returns the same list exactly when the
\* list is empty or its last segment is not empty; a list that ends with an
\* empty segment comes back without it. The list is the one
\* split_expressions computes from its argument.
C27_StableUnlessLastSegmentEmpty ==
    split_pc = "done" =>
        /\ expressions = split_expressions(expr_string)
        /\ IF expressions # <<>> /\ expressions[Len(expressions)] = <<>>
           THEN SplitAgain = SubSeq(expressions, 1, Len(expressions) - 1)
           ELSE SplitAgain = expressions

\* split_expressions('a,,') returns ['a', '']; joined it is 'a,', which
\* splits into ['a']
C27_Witness ==
    /\ split_pc = "done"
    /\ expr_string = <<"a", ",", ",">>
    /\ expressions = <<<<"a">>, <<>>>>
    /\ SplitAgain = <<<<"a">>>>

(***************************************************************************)
(* C30: the columns of the table of create_multi_comparison                *)
(***************************************************************************)
\* The lines of the table: the header, the separator and the rows
LinesOfTable ==
    <<TableLines(comparison).header, TableLines(comparison).separator>>
    \o TableLines(comparison).rows

\* The positions of a character in a line
PositionsIn(line, char) == {k \in 1..Len(line) : line[k] = char}

\* All lines have one length, and the '|' of the header and of every row
\* and the '+' of the separator stand at the same positions, one between
\* every two columns
LinesAligned ==
    LET lines == LinesOfTable
        bars == PositionsIn(lines[1], "|")
    IN /\ \A n \in 1..Len(lines) : Len(lines[n]) = Len(lines[1])
       /\ Cardinality(bars) = Len(comparison.widths) - 1
       /\ PositionsIn(lines[2], "+") = bars
       /\ \A n \in 3..Len(lines) : PositionsIn(lines[n], "|") = bars

\* The longest cell of a column of the table
LongestCell(column) ==
    Greatest({Len(comparison.rows[j][column]) : j \in 1..Len(comparison.rows)})

\* Some metric of the table has a row for the baseline version
BaselineHasValue ==
    \E r \in BagToSet(cmp_rows) : r[1] = baseline_version[1] /\ r[2] # SqlNull

\* A row of the chart shows a 0 for a value the table does not have
MissingValueShown ==
    \E j \in 1..Len(comparison.rows) :
        \/ RowsOf(MetricOfRow(j), baseline_version[1]) = {}
        \/ \E k \in 1..Len(comparison_versions) :
              RowsOf(MetricOfRow(j), comparison_versions[k]) = {}

\* C30 as stated: in every table create_multi_comparison renders, the
\* header line, the separator line and every data row have the same length
\* and their column separators stand at the same positions: each column is
\* as wide as the wider of its header and its longest cell (the metric
\* column at least 7), also for rows whose baseline or comparison value is
\* missing and shown as 0.
C30_ColumnsAsWideAsHeaderAndLongestCell ==
    ChartReturned =>
        /\ LinesAligned
        /\ comparison.widths[1] = Greatest({7, LongestCell(1)})
        /\ \A c \in 2..Len(comparison.widths) :
              comparison.widths[c] = Greatest({Len(comparison.header[c - 1]), LongestCell(c)})

\* C30, amended: the same, except that the baseline column is at least 8
\* wide when no metric of the table has a row for the baseline version
C30_ColumnsAlignedBaselineWidthDefaultsToEight ==
    ChartReturned =>
        /\ LinesAligned
        /\ comparison.widths[1] = Greatest({7, LongestCell(1)})
        /\ comparison.widths[2] =
              Greatest({Len(comparison.header[1]), LongestCell(2)}
                       \cup (IF BaselineHasValue THEN {} ELSE {8}))
        /\ \A c \in 3..Len(comparison.widths) :
              comparison.widths[c] = Greatest({Len(comparison.header[c - 1]), LongestCell(c)})

\* A table under letter labels whose baseline version has no value for any
\* metric: the baseline column holds 'A' and '0' and is 8 wide, and the
\* lines are aligned
C30_Witness ==
    /\ ChartReturned
    /\ ~BaselineHasValue
    /\ MissingValueShown
    /\ comparison.header[1] = <<"A">>
    /\ LongestCell(2) = 1
    /\ comparison.widths[2] = 8
    /\ LinesAligned

====
